---- MODULE Spec2Model ----
(***************************************************************************)
(* A model of the Batcher class of promise-batcher (src/index.js).         *)
(*                                                                         *)
(* One step of the model is one run-to-completion turn of the JavaScript   *)
(* event loop that touches the batcher: a call of getResult or send, the   *)
(* firing of the queuing-delay timer, the settlement of the awaitable      *)
(* returned by delayFunction, or the settlement of the awaitable returned  *)
(* by batchingFunction.  Everything such a turn calls synchronously        *)
(* (_trigger, _run, _runImmediately and the nested _trigger calls) is part *)
(* of the step.  The two user callbacks are the environment: their results *)
(* are chosen nondeterministically.                                        *)
(***************************************************************************)
EXTENDS Integers, Sequences, FiniteSets, TLC

\* ------------------------------------------------------------------------
\* Bounds of the exploration
\* ------------------------------------------------------------------------
\* number of getResult calls in one behaviour
MaxRequests == 3
\* largest finite options.maxBatchSize explored
MaxBatch == 2
\* largest options.queuingThresholds entry explored
MaxThreshold == 2
\* number of RETRY tokens the batching function hands out in one behaviour
MaxRetries == 1
\* number of idlePromise calls in one behaviour
MaxIdleCalls == 3

\* request values handed to getResult
Inputs == {"a", "b"}
\* plain values a batching function answers with
Values == {"x", "y"}
\* Error objects a batching function answers with
Errors == {"E"}
\* exports.BATCHER_RETRY_TOKEN
BATCHER_RETRY_TOKEN == "RETRY"
\* what one element of a batching function's output array can be
Elems == Values \cup Errors \cup {BATCHER_RETRY_TOKEN}

\* the default of _maxBatchSize; it exceeds every queue length of the model,
\* so that  length >= Infinity  is false and  splice(0, Infinity)  takes all
Infinity == MaxRequests + 1

\* rejection reasons created by the batcher or by the callbacks
NotArrayError == "batchingFunction must return an array"
LengthError == "batchingFunction output length does not equal the input length"
BatchError == "batchingFunction failed"
DelayError == "delayFunction failed"

VARIABLES
    maxBatchSize,        \* this._maxBatchSize
    queuingThresholds,   \* this._queuingThresholds
    options,             \* the options bundle given to the constructor; an
                         \* option is <<>> when absent and <<v>> when given
    constructed,         \* "pending" before new Batcher(options), "ok" after
                         \* it, else the message of the error it threw
    queuingDelay,        \* this._queuingDelay
    hasDelayFunction,    \* whether options.delayFunction was given
    inputQueue,          \* this._inputQueue
    outputQueue,         \* this._outputQueue: ids of the deferred promises
    waitTimeout,         \* TRUE iff this._waitTimeout holds a timer handle
    timers,              \* the number of scheduled queuing-delay timers
    waiting,             \* this._waiting
    activePromiseCount,  \* this._activePromiseCount
    immediateCount,      \* this._immediateCount
    delayPending,        \* TRUE iff _run waits for delayFunction's awaitable
    batches,             \* suspended async bodies of _runImmediately
    deferred,            \* the deferred promises handed out by getResult
    idleHandle,          \* this._idlePromise: 0 when undefined, else the
                         \* number of the wait handle it holds
    idleCalls,           \* the promises handed out by idlePromise
    callCount,           \* history: invocations of batchingFunction so far
    retries,             \* history: RETRY tokens handed out so far
    phase,               \* history: "burst", "drain", "aborted" or "mixed"
    lastOp               \* history: the step that led to this state

vars == <<options, constructed, queuingDelay, maxBatchSize, queuingThresholds, hasDelayFunction, inputQueue,
          outputQueue, waitTimeout, timers, waiting, activePromiseCount,
          immediateCount, delayPending, batches, deferred, idleHandle,
          idleCalls, callCount, retries, phase, lastOp>>

Min(a, b) == IF a <= b THEN a ELSE b
Max(a, b) == IF a >= b THEN a ELSE b

\* Array.prototype.splice(0, n): the removed prefix and what is left
SpliceTaken(q, n) == SubSeq(q, 1, Min(n, Len(q)))
SpliceRest(q, n) == SubSeq(q, Min(n, Len(q)) + 1, Len(q))

\* ------------------------------------------------------------------------
\* The mutable fields of one Batcher, as one record.  The operators below
\* take such a record and return the set of records the call can end in.
\* ------------------------------------------------------------------------
Cur ==
    [inputQueue |-> inputQueue, outputQueue |-> outputQueue,
     waitTimeout |-> waitTimeout, timers |-> timers, waiting |-> waiting,
     activePromiseCount |-> activePromiseCount,
     immediateCount |-> immediateCount, delayPending |-> delayPending,
     batches |-> batches, deferred |-> deferred, callCount |-> callCount,
     idleHandle |-> idleHandle, idleCalls |-> idleCalls,
     trace |-> <<>>]

\* one entry of the history of a step: what happened (a timer was set or
\* cleared, a run was started at once, delayFunction or batchingFunction
\* was called, batchingFunction threw, requests were put back for a retry)
\* and the queue and counters it happened at
Event(s, ev) ==
    [ev |-> ev, inputs |-> <<>>, promises |-> <<>>,
     queue |-> IF ev \in {"call", "requeue"} THEN s.outputQueue ELSE <<>>,
     queued |-> Len(s.inputQueue),
     active |-> s.activePromiseCount,
     immediate |-> s.immediateCount,
     call |-> IF ev = "call" THEN s.callCount + 1 ELSE 0]

Note(s, ev) == [s EXCEPT !.trace = Append(@, Event(s, ev))]

\* deferred.resolve(v) / deferred.reject(e): the first settlement wins, a
\* later one is ignored by the promise.  settles counts every call; input
\* is the value the request was submitted with, remembered for as long as
\* the promise is pending; retried tells whether the request was ever put
\* back in the queue
Settle(d, id, st, val) ==
    [d EXCEPT ![id] = [st |-> IF d[id].st = "pending" THEN st ELSE d[id].st,
                       val |-> IF d[id].st = "pending" THEN val ELSE d[id].val,
                       input |-> "-",
                       retried |-> d[id].retried,
                       settles |-> d[id].settles + 1]]

RECURSIVE MarkRetried(_, _)
MarkRetried(d, ids) ==
    IF ids = <<>> THEN d
    ELSE MarkRetried([d EXCEPT ![Head(ids)].retried = TRUE], Tail(ids))

RECURSIVE SettleAll(_, _, _, _)
SettleAll(d, ids, st, val) ==
    IF ids = <<>> THEN d
    ELSE SettleAll(Settle(d, Head(ids), st, val), Tail(ids), st, val)

\* src/index.js:88  Math.min(this._activePromiseCount, thresholds.length - 1)
\* (0-based in the source, 1-based here)
ThresholdIndex(s) ==
    Min(s.activePromiseCount, Len(queuingThresholds) - 1) + 1

\* a threshold test that a full batch overrides
BelowThreshold_UnlessFull(s) ==
    /\ Len(s.inputQueue) < queuingThresholds[ThresholdIndex(s)]
    /\ Len(s.inputQueue) < maxBatchSize

\* a threshold test that also holds requests back while a batch is active
BelowThreshold_WhileActive(s) ==
    \/ Len(s.inputQueue) < queuingThresholds[ThresholdIndex(s)]
    \/ s.activePromiseCount > 0

\* a _trigger that never finds the queue below the threshold
BelowThreshold_Never(s) == FALSE

\* src/index.js:89
BelowThreshold(s) ==
    Len(s.inputQueue) < queuingThresholds[ThresholdIndex(s)]

\* an immediate start that needs more than maxBatchSize queued requests
RunNow_Strict(s) ==
    Len(s.inputQueue) > maxBatchSize \/ s.immediateCount # 0

\* an immediate start as soon as anything is queued
RunNow_Always(s) ==
    Len(s.inputQueue) >= 1 \/ s.immediateCount # 0

\* an immediate start that ignores the requests marked by send()
RunNow_SizeOnly(s) ==
    Len(s.inputQueue) >= maxBatchSize

\* src/index.js:93
RunNow(s) ==
    Len(s.inputQueue) >= maxBatchSize \/ s.immediateCount # 0

\* an extraction that empties the queue, whatever maxBatchSize is
ExtractBatch_TakesAll(s) ==
    [s EXCEPT !.inputQueue = <<>>,
              !.outputQueue = <<>>,
              !.immediateCount =
                  IF @ # 0 THEN Max(0, @ - Len(s.inputQueue)) ELSE @]

\* an extraction that takes the inputs and leaves their promises queued
ExtractBatch_KeepsPromises(s) ==
    LET ins == SpliceTaken(s.inputQueue, maxBatchSize)
    IN  [s EXCEPT !.inputQueue = SpliceRest(s.inputQueue, maxBatchSize),
                  !.immediateCount =
                      IF @ # 0 THEN Max(0, @ - Len(ins)) ELSE @]

\* src/index.js:153-157: the queue prefix becomes the batch
ExtractBatch(s) ==
    LET ins == SpliceTaken(s.inputQueue, maxBatchSize)
    IN  [s EXCEPT !.inputQueue = SpliceRest(s.inputQueue, maxBatchSize),
                  !.outputQueue = SpliceRest(s.outputQueue, maxBatchSize),
                  !.immediateCount =
                      IF @ # 0 THEN Max(0, @ - Len(ins)) ELSE @]

\* a batch that takes the whole queue, whatever maxBatchSize is
BatchOf_All(s) ==
    [inputs |-> s.inputQueue, promises |-> s.outputQueue,
     call |-> s.callCount + 1]

\* the batch _runImmediately takes out of s (inputs and outputPromises);
\* call is the number of the invocation of batchingFunction it is passed to
BatchOf(s) ==
    [inputs |-> SpliceTaken(s.inputQueue, maxBatchSize),
     promises |-> SpliceTaken(s.outputQueue, maxBatchSize),
     call |-> s.callCount + 1]

\* a catch block that rejects only the first promise of the batch
FailBatch_FirstOnly(s, b, err) ==
    [s EXCEPT !.deferred = Settle(@, b.promises[1], "rejected", err),
              !.activePromiseCount = @ - 1]

\* a failure that leaves the batch counted as active
FailBatch_KeepsActive(s, b, err) ==
    [s EXCEPT !.deferred = SettleAll(@, b.promises, "rejected", err)]

\* src/index.js:204-213: catch and finally of the async body, before the
\* closing _trigger
FailBatch(s, b, err) ==
    [s EXCEPT !.deferred = SettleAll(@, b.promises, "rejected", err),
              !.activePromiseCount = @ - 1]

\* the history entry of a synchronous throw of batchingFunction: the batch
\* it was called with
Threw(s, b) ==
    [s EXCEPT !.trace = Append(@, [Event(s, "threw") EXCEPT
                                      !.inputs = b.inputs,
                                      !.promises = b.promises,
                                      !.call = b.call])]

\* an idling getter that looks at the queue only
Idling_QueueOnly(s) == s.inputQueue = <<>>

\* the idling getter: the queue is empty and no batch is active
Idling(s) == s.inputQueue = <<>> /\ s.activePromiseCount = 0

\* a trigger evaluation that never signals idle
IdleSignal_Never(s) == s

\* an idle signal that looks at the queue only
IdleSignal_QueueOnly(s) ==
    IF s.idleHandle # 0 /\ s.inputQueue = <<>>
    THEN [Note(s, "idle") EXCEPT
            !.idleHandle = 0,
            !.idleCalls = [i \in DOMAIN @ |->
                             IF @[i].handle = s.idleHandle
                             THEN [@[i] EXCEPT !.st = "resolved"] ELSE @[i]]]
    ELSE s

\* the idle signal of _trigger: when a wait handle exists and the batcher
\* is idle, the handle is resolved, and with it every promise idlePromise
\* returned for it, and the handle is discarded
IdleSignal(s) ==
    IF s.idleHandle # 0 /\ Idling(s)
    THEN [Note(s, "idle") EXCEPT
            !.idleHandle = 0,
            !.idleCalls = [i \in DOMAIN @ |->
                             IF @[i].handle = s.idleHandle
                             THEN [@[i] EXCEPT !.st = "resolved"] ELSE @[i]]]
    ELSE s

RECURSIVE Trigger(_), Run(_), RunImmediately(_)

\* a _trigger that does not look at the run that is already committed
Trigger_IgnoresCommitted(s) ==
    IF BelowThreshold(s) THEN {IdleSignal(s)}
    ELSE IF RunNow(s) THEN
        Run([(IF s.waitTimeout THEN Note(Note(s, "timerCleared"), "runNow")
                               ELSE Note(s, "runNow"))
             EXCEPT !.waitTimeout = FALSE,
                    !.timers = IF s.waitTimeout THEN Max(0, @ - 1) ELSE @,
                    !.waiting = TRUE])
    ELSE IF s.waiting THEN {s}
    ELSE {[Note(s, "timerSet") EXCEPT !.waiting = TRUE, !.waitTimeout = TRUE,
                                      !.timers = @ + 1]}

\* a _trigger that restarts the pending timer for a later arrival
Trigger_RestartsTimer(s) ==
    IF s.waiting /\ ~s.waitTimeout THEN {s}
    ELSE IF BelowThreshold(s) THEN {IdleSignal(s)}
    ELSE IF RunNow(s) THEN
        Run([(IF s.waitTimeout THEN Note(Note(s, "timerCleared"), "runNow")
                               ELSE Note(s, "runNow"))
             EXCEPT !.waitTimeout = FALSE,
                    !.timers = IF s.waitTimeout THEN Max(0, @ - 1) ELSE @,
                    !.waiting = TRUE])
    ELSE IF s.waiting THEN {Note(Note(s, "timerCleared"), "timerSet")}
    ELSE {[Note(s, "timerSet") EXCEPT !.waiting = TRUE, !.waitTimeout = TRUE,
                                      !.timers = @ + 1]}

\* a _trigger that starts the immediate run and leaves the timer alive
Trigger_KeepsTimer(s) ==
    IF s.waiting /\ ~s.waitTimeout THEN {s}
    ELSE IF BelowThreshold(s) THEN {IdleSignal(s)}
    ELSE IF RunNow(s) THEN
        Run([(IF s.waitTimeout THEN Note(Note(s, "timerCleared"), "runNow")
                               ELSE Note(s, "runNow"))
             EXCEPT !.waitTimeout = FALSE,
                    !.waiting = TRUE])
    ELSE IF s.waiting THEN {s}
    ELSE {[Note(s, "timerSet") EXCEPT !.waiting = TRUE, !.waitTimeout = TRUE,
                                      !.timers = @ + 1]}

\* a _trigger that sets a timer without looking at the one that is pending
Trigger_Rearms(s) ==
    IF s.waiting /\ ~s.waitTimeout THEN {s}
    ELSE IF BelowThreshold(s) THEN {IdleSignal(s)}
    ELSE IF RunNow(s) THEN
        Run([(IF s.waitTimeout THEN Note(Note(s, "timerCleared"), "runNow")
                               ELSE Note(s, "runNow"))
             EXCEPT !.waitTimeout = FALSE,
                    !.timers = IF s.waitTimeout THEN Max(0, @ - 1) ELSE @,
                    !.waiting = TRUE])
    ELSE {[Note(s, "timerSet") EXCEPT !.waiting = TRUE, !.waitTimeout = TRUE,
                                      !.timers = @ + 1]}

\* src/index.js:82-115  _trigger
Trigger(s) ==
    IF s.waiting /\ ~s.waitTimeout THEN {s}
    ELSE IF BelowThreshold(s) THEN {IdleSignal(s)}
    ELSE IF RunNow(s) THEN
        Run([(IF s.waitTimeout THEN Note(Note(s, "timerCleared"), "runNow")
                               ELSE Note(s, "runNow"))
             EXCEPT !.waitTimeout = FALSE,
                    !.timers = IF s.waitTimeout THEN Max(0, @ - 1) ELSE @,
                    !.waiting = TRUE])
    ELSE IF s.waiting THEN {s}
    ELSE {[Note(s, "timerSet") EXCEPT !.waiting = TRUE, !.waitTimeout = TRUE,
                                      !.timers = @ + 1]}

\* src/index.js:119-148  _run.  delayFunction either returns nothing (the
\* batch runs at once) or an awaitable; a synchronous throw becomes a
\* rejected awaitable (line 126), whose handler runs in a later turn
Run(s) ==
    IF hasDelayFunction THEN
        LET c == Note(s, "delayCall")
        IN  RunImmediately(c) \cup {[c EXCEPT !.delayPending = TRUE]}
    ELSE RunImmediately(s)

\* src/index.js:152-215  _runImmediately, up to the first await: the batch
\* is extracted, batchingFunction is called, _trigger runs (finally, line
\* 170); then either the body suspends on the returned value, or, when
\* batchingFunction threw, the catch and finally blocks run at once
RunImmediately(s) ==
    LET b == BatchOf(s)
        x == ExtractBatch(s)
        started == [x EXCEPT !.waiting = FALSE,
                             !.activePromiseCount = @ + 1,
                             !.callCount = @ + 1,
                             !.trace = Append(@,
                                 [Event(s, "call") EXCEPT
                                     !.inputs = b.inputs,
                                     !.promises = b.promises])]
        returned == Trigger([started EXCEPT !.batches = @ \cup {b}])
        thrown == UNION {Trigger(FailBatch(Threw(t, b), b, BatchError)) :
                            t \in Trigger(started)}
    IN  returned \cup thrown

\* a distribution loop that reads the outputs from the wrong end
RECURSIVE Distribute_Reversed(_, _, _, _)
Distribute_Reversed(d, promises, outputs, i) ==
    IF i > Len(promises) THEN d
    ELSE LET o == outputs[Len(outputs) + 1 - i]
             d1 == IF o = BATCHER_RETRY_TOKEN THEN d
                   ELSE IF o \in Errors
                        THEN Settle(d, promises[i], "rejected", o)
                        ELSE Settle(d, promises[i], "resolved", o)
         IN  Distribute_Reversed(d1, promises, outputs, i + 1)

\* a distribution loop in which one Error rejects the whole batch
RECURSIVE Distribute_ErrorSpreads(_, _, _, _)
Distribute_ErrorSpreads(d, promises, outputs, i) ==
    IF i > Len(promises) THEN d
    ELSE LET o == outputs[i]
             d1 == IF o = BATCHER_RETRY_TOKEN THEN d
                   ELSE IF o \in Errors
                        THEN SettleAll(d, promises, "rejected", o)
                        ELSE Settle(d, promises[i], "resolved", o)
         IN  Distribute_ErrorSpreads(d1, promises, outputs, i + 1)

\* a distribution loop that hands the retry token to the caller
RECURSIVE Distribute_TokenDelivered(_, _, _, _)
Distribute_TokenDelivered(d, promises, outputs, i) ==
    IF i > Len(promises) THEN d
    ELSE LET o == outputs[i]
             d1 == IF o \in Errors
                   THEN Settle(d, promises[i], "rejected", o)
                   ELSE Settle(d, promises[i], "resolved", o)
         IN  Distribute_TokenDelivered(d1, promises, outputs, i + 1)

\* src/index.js:180-194: the loop over the outputs of a well-formed answer
RECURSIVE Distribute(_, _, _, _)
Distribute(d, promises, outputs, i) ==
    IF i > Len(promises) THEN d
    ELSE LET o == outputs[i]
             d1 == IF o = BATCHER_RETRY_TOKEN THEN d
                   ELSE IF o \in Errors
                        THEN Settle(d, promises[i], "rejected", o)
                        ELSE Settle(d, promises[i], "resolved", o)
         IN  Distribute(d1, promises, outputs, i + 1)

\* the positions answered with the retry token, in order
RECURSIVE RetryPositions(_, _)
RetryPositions(outputs, i) ==
    IF i > Len(outputs) THEN <<>>
    ELSE IF outputs[i] = BATCHER_RETRY_TOKEN
         THEN <<i>> \o RetryPositions(outputs, i + 1)
         ELSE RetryPositions(outputs, i + 1)

Pick(q, idx) == [k \in 1..Len(idx) |-> q[idx[k]]]

\* the history entry of a requeue: the queue as the unshift calls left it
\* and the promises that were put back
Requeued(s, promises) ==
    [s EXCEPT !.trace = Append(@, [Event(s, "requeue") EXCEPT
                                      !.inputs = s.inputQueue,
                                      !.promises = promises])]

\* a requeue that puts the requests back at the tail of the queue
Requeue_AtTail(s, b, outputs) ==
    LET idx == RetryPositions(outputs, 1)
    IN  IF idx = <<>> THEN s
        ELSE Requeued([s EXCEPT
                !.deferred = MarkRetried(@, Pick(b.promises, idx)),
                !.immediateCount = IF @ # 0 THEN @ + Len(idx) ELSE @,
                !.inputQueue = @ \o Pick(b.inputs, idx),
                !.outputQueue = @ \o Pick(b.promises, idx)],
                      Pick(b.promises, idx))

\* a requeue that puts the whole batch back when any request asks for a retry
Requeue_WholeBatch(s, b, outputs) ==
    IF RetryPositions(outputs, 1) = <<>> THEN s
    ELSE Requeued([s EXCEPT
            !.deferred = MarkRetried(@, b.promises),
            !.immediateCount = IF @ # 0 THEN @ + Len(b.promises) ELSE @,
            !.inputQueue = b.inputs \o @,
            !.outputQueue = b.promises \o @], b.promises)

\* a requeue that marks the retried requests for an immediate run whatever
\* the counter was
Requeue_AlwaysCounts(s, b, outputs) ==
    LET idx == RetryPositions(outputs, 1)
    IN  IF idx = <<>> THEN s
        ELSE Requeued([s EXCEPT
                !.deferred = MarkRetried(@, Pick(b.promises, idx)),
                !.immediateCount = @ + Len(idx),
                !.inputQueue = Pick(b.inputs, idx) \o @,
                !.outputQueue = Pick(b.promises, idx) \o @],
                      Pick(b.promises, idx))

\* src/index.js:195-202: the retried requests go back to the queue head
Requeue(s, b, outputs) ==
    LET idx == RetryPositions(outputs, 1)
    IN  IF idx = <<>> THEN s
        ELSE Requeued([s EXCEPT
                !.deferred = MarkRetried(@, Pick(b.promises, idx)),
                !.immediateCount = IF @ # 0 THEN @ + Len(idx) ELSE @,
                !.inputQueue = Pick(b.inputs, idx) \o @,
                !.outputQueue = Pick(b.promises, idx) \o @],
                      Pick(b.promises, idx))

\* a completion that accepts an answer shorter than the batch and settles
\* only the requests it covers
Complete_ShortAnswerAccepted(s, b, out) ==
    IF out.kind = "rejected" THEN FailBatch(s, b, BatchError)
    ELSE IF out.kind = "notArray" THEN FailBatch(s, b, NotArrayError)
    ELSE IF Len(out.outputs) > Len(b.promises)
         THEN FailBatch(s, b, LengthError)
    ELSE LET n == Len(out.outputs)
             d == Distribute(s.deferred, SubSeq(b.promises, 1, n),
                             out.outputs, 1)
         IN  [s EXCEPT !.deferred = d, !.activePromiseCount = @ - 1]

\* a completion that counts the batch down before it distributes the
\* results
Complete_CountsDownFirst(s, b, out) ==
    LET c == [s EXCEPT !.activePromiseCount = @ - 1]
    IN  IF out.kind = "rejected"
        THEN [c EXCEPT !.deferred = SettleAll(@, b.promises, "rejected",
                                              BatchError)]
        ELSE IF out.kind = "notArray"
        THEN [c EXCEPT !.deferred = SettleAll(@, b.promises, "rejected",
                                              NotArrayError)]
        ELSE IF Len(out.outputs) # Len(b.promises)
        THEN [c EXCEPT !.deferred = SettleAll(@, b.promises, "rejected",
                                              LengthError)]
        ELSE Requeue([c EXCEPT !.deferred = Distribute(@, b.promises,
                                                       out.outputs, 1)],
                     b, out.outputs)

\* src/index.js:172-213: the async body after the await, before the closing
\* _trigger.  out.kind is "array", "notArray" or "rejected"
Complete(s, b, out) ==
    IF out.kind = "rejected" THEN FailBatch(s, b, BatchError)
    ELSE IF out.kind = "notArray" THEN FailBatch(s, b, NotArrayError)
    ELSE IF Len(out.outputs) # Len(b.promises)
         THEN FailBatch(s, b, LengthError)
    ELSE LET d == Distribute(s.deferred, b.promises, out.outputs, 1)
             r == Requeue([s EXCEPT !.deferred = d], b, out.outputs)
         IN  [r EXCEPT !.activePromiseCount = @ - 1]

\* what the awaitable of a batching function can settle with, for a batch of
\* n requests: a rejection, a non-array, an array as long as the batch, or
\* an array that is one shorter or one longer (of values and retry tokens)
Outcomes(n) ==
    {[kind |-> "rejected", outputs |-> <<>>],
     [kind |-> "notArray", outputs |-> <<>>]}
    \cup {[kind |-> "array", outputs |-> o] : o \in [1..n -> Elems]}
    \cup {[kind |-> "array", outputs |-> o] :
            o \in UNION {[1..m -> {"x", BATCHER_RETRY_TOKEN}] :
                            m \in {n - 1, n + 1}}}

\* the number of requests an outcome sends back to the queue
RetryCount(b, out) ==
    IF out.kind = "array" /\ Len(out.outputs) = Len(b.promises)
    THEN Len(RetryPositions(out.outputs, 1)) ELSE 0

\* ------------------------------------------------------------------------
\* Steps
\* ------------------------------------------------------------------------
NoBatch == [inputs |-> <<>>, promises |-> <<>>, call |-> 0]
NoOutcome == [kind |-> "none", outputs |-> <<>>]

\* what the history keeps of an outcome: an array of the wrong length is
\* told apart from a well-formed answer
Seen(b, out) ==
    IF out.kind = "array" /\ Len(out.outputs) # Len(b.promises)
    THEN [kind |-> "badLength", outputs |-> out.outputs]
    ELSE out

\* "burst": only getResult calls so far; "drain": a burst followed only by
\* timer firings, fulfilled delays and batch completions without retry;
\* "aborted": the same with at least one rejected delay; "mixed": the rest
NextPhase(op, b, out) ==
    IF phase = "mixed" THEN "mixed"
    ELSE IF op = "getResult" THEN (IF phase = "burst" THEN "burst" ELSE "mixed")
    ELSE IF op \in {"timer", "delayResolved"}
            \/ (op = "batch" /\ RetryCount(b, out) = 0)
         THEN (IF phase = "aborted" THEN "aborted" ELSE "drain")
    ELSE IF op = "delayRejected" THEN "aborted"
    ELSE "mixed"

Install(t, op, b, out) ==
    /\ inputQueue' = t.inputQueue
    /\ outputQueue' = t.outputQueue
    /\ waitTimeout' = t.waitTimeout
    /\ timers' = t.timers
    /\ waiting' = t.waiting
    /\ activePromiseCount' = t.activePromiseCount
    /\ immediateCount' = t.immediateCount
    /\ delayPending' = t.delayPending
    /\ batches' = t.batches
    /\ deferred' = t.deferred
    /\ idleHandle' = t.idleHandle
    /\ idleCalls' = t.idleCalls
    /\ callCount' = t.callCount
    /\ lastOp' = [op |-> op, batch |-> b, out |-> Seen(b, out),
                  trace |-> t.trace]
    /\ phase' = NextPhase(op, b, out)
    /\ UNCHANGED <<options, constructed, queuingDelay, maxBatchSize,
                   queuingThresholds, hasDelayFunction>>

\* the options.queuingThresholds arrays explored: one or two levels
ThresholdChoices ==
    {<<a>> : a \in 1..MaxThreshold}
    \cup {q \in {<<a, b>> : a, b \in 1..MaxThreshold} : q[1] # q[2]}

\* the messages of the errors thrown by the constructor
ThresholdsEmptyError == "options.queuingThresholds must contain at least one number"
ThresholdsRangeError == "options.queuingThresholds must only contain numbers greater than 0"
MaxBatchSizeError == "options.maxBatchSize must be greater than 0"
QueuingDelayError == "options.queuingDelay must be greater than or equal to 0"

\* a constructor that refuses a queuing delay of zero
Construct_ZeroDelayRefused(o) ==
    LET given == o.queuingThresholds # <<>>
        q == IF given THEN o.queuingThresholds[1] ELSE <<1>>
        fields == [error |-> "ok",
                   maxBatchSize |-> Infinity, queuingDelay |-> 1,
                   queuingThresholds |-> <<>>, built |-> FALSE]
    IN  IF given /\ q = <<>>
        THEN [fields EXCEPT !.error = ThresholdsEmptyError]
        ELSE IF given /\ \E i \in 1..Len(q) : q[i] < 1
        THEN [fields EXCEPT !.error = ThresholdsRangeError]
        ELSE IF o.maxBatchSize # <<>> /\ o.maxBatchSize[1] < 1
        THEN [fields EXCEPT !.error = MaxBatchSizeError,
                            !.queuingThresholds = q]
        ELSE IF o.queuingDelay # <<>> /\ o.queuingDelay[1] < 1
        THEN [fields EXCEPT !.error = QueuingDelayError,
                            !.queuingThresholds = q,
                            !.maxBatchSize = IF o.maxBatchSize # <<>>
                                             THEN o.maxBatchSize[1] ELSE @]
        ELSE [fields EXCEPT !.built = TRUE,
                            !.queuingThresholds = q,
                            !.maxBatchSize = IF o.maxBatchSize # <<>>
                                             THEN o.maxBatchSize[1] ELSE @,
                            !.queuingDelay = IF o.queuingDelay # <<>>
                                             THEN o.queuingDelay[1] ELSE @]

\* src/index.js:20-56  the constructor: the fields it has assigned when it
\* returns (built) or throws (error is the message); the defaults are
\* assigned first, the options are validated in the order
\* queuingThresholds, maxBatchSize, queuingDelay
Construct(o) ==
    LET given == o.queuingThresholds # <<>>
        q == IF given THEN o.queuingThresholds[1] ELSE <<1>>
        fields == [error |-> "ok",
                   maxBatchSize |-> Infinity, queuingDelay |-> 1,
                   queuingThresholds |-> <<>>, built |-> FALSE]
    IN  IF given /\ q = <<>>
        THEN [fields EXCEPT !.error = ThresholdsEmptyError]
        ELSE IF given /\ \E i \in 1..Len(q) : q[i] < 1
        THEN [fields EXCEPT !.error = ThresholdsRangeError]
        ELSE IF o.maxBatchSize # <<>> /\ o.maxBatchSize[1] < 1
        THEN [fields EXCEPT !.error = MaxBatchSizeError,
                            !.queuingThresholds = q]
        ELSE IF o.queuingDelay # <<>> /\ o.queuingDelay[1] < 0
        THEN [fields EXCEPT !.error = QueuingDelayError,
                            !.queuingThresholds = q,
                            !.maxBatchSize = IF o.maxBatchSize # <<>>
                                             THEN o.maxBatchSize[1] ELSE @]
        ELSE [fields EXCEPT !.built = TRUE,
                            !.queuingThresholds = q,
                            !.maxBatchSize = IF o.maxBatchSize # <<>>
                                             THEN o.maxBatchSize[1] ELSE @,
                            !.queuingDelay = IF o.queuingDelay # <<>>
                                             THEN o.queuingDelay[1] ELSE @]

\* the options of the batchers explored: queuingThresholds given,
\* maxBatchSize given or left unbounded, the default queuingDelay, with and
\* without a delayFunction
RunOptions ==
    [queuingThresholds : {<<q>> : q \in ThresholdChoices},
     maxBatchSize : {<<>>} \cup {<<n>> : n \in 1..MaxBatch},
     queuingDelay : {<<>>},
     delayFunction : BOOLEAN]

\* src/index.js:21-29  the queues, flags and counters of a new batcher,
\* with the history of the model
Fresh ==
    /\ inputQueue = <<>>
    /\ outputQueue = <<>>
    /\ waitTimeout = FALSE
    /\ timers = 0
    /\ waiting = FALSE
    /\ activePromiseCount = 0
    /\ immediateCount = 0
    /\ delayPending = FALSE
    /\ batches = {}
    /\ deferred = <<>>
    /\ idleHandle = 0
    /\ idleCalls = <<>>
    /\ callCount = 0
    /\ retries = 0
    /\ phase = "burst"
    /\ lastOp = [op |-> "new", batch |-> NoBatch, out |-> NoOutcome,
                 trace |-> <<>>]

\* src/index.js:20-56  the state after a successful construction
Init ==
    /\ options \in RunOptions
    /\ constructed = Construct(options).error
    /\ maxBatchSize = Construct(options).maxBatchSize
    /\ queuingDelay = Construct(options).queuingDelay
    /\ queuingThresholds = Construct(options).queuingThresholds
    /\ hasDelayFunction = options.delayFunction
    /\ Fresh

\* a getResult that puts the request at the head of the queue
GetResultOf_AtHead(s, input) ==
    LET id == Len(s.deferred) + 1
    IN  [s EXCEPT !.inputQueue = <<input>> \o @,
                  !.outputQueue = <<id>> \o @,
                  !.deferred = Append(@, [st |-> "pending", val |-> "none",
                                          input |-> input, retried |-> FALSE,
                                          settles |-> 0])]

\* src/index.js:60-68  getResult, before its _trigger call
GetResultOf(s, input) ==
    LET id == Len(s.deferred) + 1
    IN  [s EXCEPT !.inputQueue = Append(@, input),
                  !.outputQueue = Append(@, id),
                  !.deferred = Append(@, [st |-> "pending", val |-> "none",
                                          input |-> input, retried |-> FALSE,
                                          settles |-> 0])]

GetResultFrom(values) ==
    /\ Len(deferred) < MaxRequests
    /\ \E input \in values :
         \E t \in Trigger(GetResultOf(Cur, input)) :
            Install(t, "getResult", NoBatch, NoOutcome)
    /\ UNCHANGED retries

GetResult == GetResultFrom(Inputs)

\* a send that marks nothing
SendOf_NoMark(s) == s

\* src/index.js:72-78  send, before its _trigger call
SendOf(s) == [s EXCEPT !.immediateCount = Len(s.inputQueue)]

Send ==
    /\ \E t \in Trigger(SendOf(Cur)) : Install(t, "send", NoBatch, NoOutcome)
    /\ UNCHANGED retries

\* a timer callback that keeps the handle of the timer that fired
TimerOf_KeepsHandle(s) == [s EXCEPT !.timers = @ - 1]

\* src/index.js:111-114  the callback of the queuing-delay timer
TimerOf(s) == [s EXCEPT !.waitTimeout = FALSE, !.timers = @ - 1]

TimerFires ==
    /\ timers > 0
    /\ \E t \in Run(TimerOf(Cur)) : Install(t, "timer", NoBatch, NoOutcome)
    /\ UNCHANGED retries

\* src/index.js:131-133  delayFunction's awaitable is fulfilled
DelayResolves ==
    /\ delayPending
    /\ \E t \in RunImmediately([Cur EXCEPT !.delayPending = FALSE]) :
         Install(t, "delayResolved", NoBatch, NoOutcome)
    /\ UNCHANGED retries

\* a failure handler that forgets to clear the committed flag
DelayFailOf_StaysCommitted(s) ==
    [s EXCEPT !.inputQueue = <<>>,
              !.outputQueue = <<>>,
              !.deferred = SettleAll(@, s.outputQueue, "rejected", DelayError),
              !.delayPending = FALSE]

\* a failure handler that rejects only the batch that was about to run
DelayFailOf_BatchOnly(s) ==
    [s EXCEPT !.inputQueue = SpliceRest(@, maxBatchSize),
              !.outputQueue = SpliceRest(@, maxBatchSize),
              !.deferred = SettleAll(@, SpliceTaken(s.outputQueue, maxBatchSize),
                                     "rejected", DelayError),
              !.waiting = FALSE,
              !.delayPending = FALSE]

\* a failure handler that also rejects the requests of the batches in
\* flight
DelayFailOf_RejectsInFlight(s) ==
    LET flying == UNION {{b.promises[k] : k \in 1..Len(b.promises)} :
                            b \in s.batches}
        d == SettleAll(s.deferred, s.outputQueue, "rejected", DelayError)
    IN  [s EXCEPT !.inputQueue = <<>>,
                  !.outputQueue = <<>>,
                  !.deferred = [id \in DOMAIN d |->
                                  IF id \in flying
                                  THEN [d[id] EXCEPT !.st = "rejected",
                                                     !.val = DelayError,
                                                     !.settles = @ + 1]
                                  ELSE d[id]],
                  !.waiting = FALSE,
                  !.delayPending = FALSE]

\* src/index.js:134-142  delayFunction's awaitable is rejected
DelayFailOf(s) ==
    [s EXCEPT !.inputQueue = <<>>,
              !.outputQueue = <<>>,
              !.deferred = SettleAll(@, s.outputQueue, "rejected", DelayError),
              !.waiting = FALSE,
              !.delayPending = FALSE]

DelayRejects ==
    /\ delayPending
    /\ Install(DelayFailOf(Cur), "delayRejected", NoBatch, NoOutcome)
    /\ UNCHANGED retries

\* src/index.js:172-213  batchingFunction's awaitable settles
\* a completion that does not evaluate the trigger again
BatchCompletesWith_NoTrigger(b, out) ==
    /\ retries + RetryCount(b, out) <= MaxRetries
    /\ retries' = retries + RetryCount(b, out)
    /\ Install(Complete([Cur EXCEPT !.batches = @ \ {b}], b, out),
               "batch", b, out)

BatchCompletesWith(b, out) ==
    /\ retries + RetryCount(b, out) <= MaxRetries
    /\ retries' = retries + RetryCount(b, out)
    /\ \E t \in Trigger(Complete([Cur EXCEPT !.batches = @ \ {b}], b, out)) :
         Install(t, "batch", b, out)

BatchCompletes ==
    \E b \in batches :
      \E out \in Outcomes(Len(b.inputs)) : BatchCompletesWith(b, out)

Next ==
    \/ GetResult
    \/ Send
    \/ TimerFires
    \/ DelayResolves
    \/ DelayRejects
    \/ BatchCompletes

Spec == Init /\ [][Next]_vars

\* ------------------------------------------------------------------------
\* The batcher with callers of idlePromise.  The values that travel
\* through the batcher do not matter to the idle signal, so one input and
\* one plain value are enough; a batch ends with a rejection or with an
\* array of values and retry tokens
\* ------------------------------------------------------------------------
IdleInputs == {"a"}

IdleOutcomes(n) ==
    {[kind |-> "rejected", outputs |-> <<>>]}
    \cup {[kind |-> "array", outputs |-> o] :
            o \in [1..n -> {"x", BATCHER_RETRY_TOKEN}]}

\* the number of wait handles created so far
HandleCount(calls) ==
    IF calls = <<>> THEN 0
    ELSE CHOOSE g \in 0..Len(calls) :
            /\ \A i \in DOMAIN calls : calls[i].handle <= g
            /\ g = 0 \/ \E i \in DOMAIN calls : calls[i].handle = g

\* an idlePromise that hands out a new wait handle with every call
IdlePromiseOf_AlwaysNew(s) ==
    IF Idling(s)
    THEN [s EXCEPT !.idleCalls = Append(@, [handle |-> 0, st |-> "resolved"])]
    ELSE LET g == HandleCount(s.idleCalls) + 1
         IN  [s EXCEPT !.idleHandle = g,
                       !.idleCalls = Append(@, [handle |-> g, st |-> "pending"])]

\* idlePromise: resolved at once when the batcher is idle; else the promise
\* of the wait handle, which is created when there is none
IdlePromiseOf(s) ==
    IF Idling(s)
    THEN [s EXCEPT !.idleCalls = Append(@, [handle |-> 0, st |-> "resolved"])]
    ELSE LET g == IF s.idleHandle # 0 THEN s.idleHandle
                  ELSE HandleCount(s.idleCalls) + 1
         IN  [s EXCEPT !.idleHandle = g,
                       !.idleCalls = Append(@, [handle |-> g, st |-> "pending"])]

IdlePromise ==
    /\ Len(idleCalls) < MaxIdleCalls
    /\ Install(IdlePromiseOf(Cur), "idlePromise", NoBatch, NoOutcome)
    /\ UNCHANGED retries

IdleGetResult == GetResultFrom(IdleInputs)

IdleBatchCompletes ==
    \E b \in batches :
      \E out \in IdleOutcomes(Len(b.inputs)) : BatchCompletesWith(b, out)

IdleNext ==
    \/ IdleGetResult
    \/ Send
    \/ TimerFires
    \/ DelayResolves
    \/ DelayRejects
    \/ IdleBatchCompletes
    \/ IdlePromise

IdleSpec == Init /\ [][IdleNext]_vars

\* ------------------------------------------------------------------------
\* The constructor applied to option bundles, the invalid ones included
\* ------------------------------------------------------------------------
ThresholdArrays ==
    {<<>>} \cup {<<a>> : a \in 0..MaxThreshold}
    \cup {<<a, b>> : a, b \in 0..MaxThreshold}

AllOptions ==
    [queuingThresholds : {<<>>} \cup {<<q>> : q \in ThresholdArrays},
     maxBatchSize : {<<>>} \cup {<<n>> : n \in (-1)..MaxBatch},
     queuingDelay : {<<>>} \cup {<<n>> : n \in (-1)..2},
     delayFunction : BOOLEAN]

\* before new Batcher(options) there is no batcher: no field is assigned
ConstructInit ==
    /\ options \in AllOptions
    /\ constructed = "pending"
    /\ maxBatchSize = 0
    /\ queuingDelay = 0
    /\ queuingThresholds = <<>>
    /\ hasDelayFunction = FALSE
    /\ Fresh

\* src/index.js:20-56  new Batcher(options): the caller gets the batcher
\* when the constructor returns and nothing when it throws
New ==
    /\ constructed = "pending"
    /\ LET r == Construct(options)
       IN  /\ constructed' = r.error
           /\ IF r.built
              THEN /\ maxBatchSize' = r.maxBatchSize
                   /\ queuingDelay' = r.queuingDelay
                   /\ queuingThresholds' = r.queuingThresholds
                   /\ hasDelayFunction' = options.delayFunction
              ELSE UNCHANGED <<maxBatchSize, queuingDelay, queuingThresholds,
                               hasDelayFunction>>
    /\ UNCHANGED <<options, inputQueue, outputQueue, waitTimeout, timers,
                   waiting, activePromiseCount, immediateCount, delayPending,
                   batches, deferred, idleHandle, idleCalls, callCount,
                   retries, phase, lastOp>>

\* the first request to the batcher that was constructed
FirstGetResult ==
    /\ constructed = "ok"
    /\ deferred = <<>>
    /\ GetResultFrom(IdleInputs)

ConstructNext == New \/ FirstGetResult

ConstructSpec == ConstructInit /\ [][ConstructNext]_vars

\* ------------------------------------------------------------------------
\* Properties
\* ------------------------------------------------------------------------
Range(q) == {q[i] : i \in 1..Len(q)}

\* the requests held by the suspended batches
InFlight == UNION {Range(b.promises) : b \in batches}

\* the invocations of batchingFunction made by the step that led here
CallsOfStep == {i \in 1..Len(lastOp.trace) : lastOp.trace[i].ev = "call"}

\* the threshold that applies with a active batches, read off the options
ThresholdAt(a) ==
    queuingThresholds[IF a < Len(queuingThresholds)
                      THEN a + 1 ELSE Len(queuingThresholds)]

\* C1: every promise handed out by getResult is resolved or rejected at
\* most once, and a settled promise is not in the pending queue: it was
\* taken into a batch or removed by a delay-function abort before
C1_SettledAtMostOnce ==
    \A id \in DOMAIN deferred :
        /\ deferred[id].settles <= 1
        /\ (deferred[id].settles = 0) = (deferred[id].st = "pending")
        /\ deferred[id].settles > 0 => id \notin Range(outputQueue)

\* a batch answered a retry for one request and settled another, and a
\* delay-function abort rejected a queued request
C1_Witness ==
    /\ \E id \in DOMAIN deferred :
          deferred[id].st = "rejected" /\ deferred[id].val = DelayError
    /\ \E id \in DOMAIN deferred :
          deferred[id].st = "resolved" /\ retries > 0
    /\ \A id \in DOMAIN deferred : deferred[id].st # "pending"

\* C3: when batchingFunction answers with an array as long as its input,
\* the request at position i is settled from element i only (resolved with
\* a plain value, rejected with an Error), and no later step changes what
\* a promise was settled with
C3_RoutedByPosition ==
    lastOp.op = "batch" /\ lastOp.out.kind = "array" =>
        \A i \in 1..Len(lastOp.batch.promises) :
            LET o == lastOp.out.outputs[i]
                p == deferred[lastOp.batch.promises[i]]
            IN  /\ o \in Values => p.st = "resolved" /\ p.val = o
                /\ o \in Errors => p.st = "rejected" /\ p.val = o

C3_SettledForGood ==
    \A id \in DOMAIN deferred :
        deferred[id].st # "pending" =>
            /\ deferred'[id].st = deferred[id].st
            /\ deferred'[id].val = deferred[id].val

C3_ResultRouting == []C3_RoutedByPosition /\ [][C3_SettledForGood]_vars

\* two batches were in flight, and the one dispatched later was answered
\* first, with a value and an Error
C3_Witness ==
    /\ lastOp.op = "batch" /\ lastOp.out.kind = "array"
    /\ Len(lastOp.out.outputs) = 2
    /\ lastOp.out.outputs[1] \in Values /\ lastOp.out.outputs[2] \in Errors
    /\ \E b \in batches : b.call < lastOp.batch.call

\* C5: no invocation of batchingFunction gets more than maxBatchSize
\* inputs, whatever built the batch
C5_BatchSizeBounded ==
    /\ \A i \in CallsOfStep : Len(lastOp.trace[i].inputs) <= maxBatchSize
    /\ \A b \in batches : Len(b.inputs) <= maxBatchSize

\* a full batch is cut from a longer queue that holds a retried request,
\* when a delayFunction awaitable is fulfilled
C5_Witness ==
    /\ lastOp.op = "delayResolved"
    /\ \E i \in CallsOfStep :
          /\ Len(lastOp.trace[i].inputs) = maxBatchSize
          /\ lastOp.trace[i].queued > maxBatchSize
          /\ \E k \in 1..Len(lastOp.trace[i].promises) :
                deferred[lastOp.trace[i].promises[k]].retried

\* Eventual settlement is stated in the form a finite run decides.  The
\* batcher is at rest when nothing is left that the event loop would run
\* for it: no timer, no delayFunction awaitable, no batchingFunction
\* awaitable.  A promise is eventually settled iff (1) every step the event
\* loop takes for the batcher lowers a measure that cannot sink for ever,
\* so that the batcher comes to rest unless new calls arrive, and (2) at
\* rest no promise is pending.
AtRest == timers = 0 /\ ~delayPending /\ batches = {}

NonePending == \A id \in DOMAIN deferred : deferred[id].st # "pending"

\* retry tokens still to come weigh more than queued requests, these more
\* than batches in flight, these more than a timer, a timer more than a
\* pending delay
Measure ==
    7 * (MaxRetries - retries) + 6 * Len(outputQueue)
    + 3 * Cardinality(batches) + 2 * timers + (IF delayPending THEN 1 ELSE 0)

C2_Progress ==
    lastOp'.op \in {"timer", "delayResolved", "delayRejected", "batch"} =>
        Measure' < Measure

\* C2 as stated: every promise returned by getResult is eventually resolved
\* or rejected when timers fire, the callbacks settle and retries are
\* finite, for every valid queuingThresholds
C2_EveryPromiseSettles == [][C2_Progress]_vars /\ [](AtRest => NonePending)

\* C2 amended: the same with queuingThresholds[0] = 1
C2_SettlesWhenFirstThresholdIsOne ==
    /\ [][C2_Progress]_vars
    /\ [](queuingThresholds[1] = 1 /\ AtRest => NonePending)

\* a request that was retried, then waited behind the higher threshold of
\* an active batch, is settled in the end, and the batcher is at rest
C2_Witness ==
    /\ queuingThresholds = <<1, 2>>
    /\ Len(deferred) = MaxRequests
    /\ AtRest /\ NonePending
    /\ \E id \in DOMAIN deferred :
          deferred[id].retried /\ deferred[id].st = "resolved"

\* the configuration of C4: no maxBatchSize, the default thresholds, no
\* delayFunction
C4_Options ==
    /\ maxBatchSize = Infinity
    /\ queuingThresholds = <<1>>
    /\ ~hasDelayFunction

\* while only getResult calls have happened nothing is dispatched: the
\* queue holds every request, in call order, behind one pending timer
C4_Burst ==
    C4_Options /\ phase = "burst" =>
        /\ callCount = 0
        /\ outputQueue = [i \in 1..Len(deferred) |-> i]
        /\ inputQueue = [i \in 1..Len(deferred) |-> deferred[i].input]
        /\ Len(deferred) >= 1 => timers = 1 /\ waitTimeout /\ waiting

\* the timer that ends the burst invokes batchingFunction once, with all
\* the inputs in call order
C4_Fire ==
    C4_Options /\ phase = "burst" /\ lastOp'.op = "timer" =>
        /\ callCount' = 1
        /\ \E i \in 1..Len(lastOp'.trace) :
              /\ lastOp'.trace[i].ev = "call"
              /\ lastOp'.trace[i].inputs = inputQueue
              /\ lastOp'.trace[i].inputs =
                    [k \in 1..Len(deferred) |-> deferred[k].input]
              /\ lastOp'.trace[i].promises = [k \in 1..Len(deferred) |-> k]

\* and nothing is invoked after it
C4_Drain ==
    C4_Options /\ phase = "drain" =>
        callCount = 1 /\ inputQueue = <<>> /\ timers = 0 /\ ~waiting

C6_Options == maxBatchSize <= MaxBatch /\ queuingThresholds = <<1>>

\* ceil(n / k)
CeilDiv(n, k) == (n + k - 1) \div k

\* the invocations made by the last step took consecutive requests in
\* arrival order: invocation c took requests (c-1)k+1 .. min(ck, N)
C6_Chunks ==
    \A i \in CallsOfStep :
        LET e == lastOp.trace[i]
            first == (e.call - 1) * maxBatchSize
            size == Min(maxBatchSize, Len(deferred) - first)
        IN  /\ e.promises = [j \in 1..size |-> first + j]
            /\ Len(e.inputs) = size
            /\ \A j \in 1..size :
                  deferred[first + j].st = "pending" =>
                      e.inputs[j] = deferred[first + j].input

\* C6 as stated: with maxBatchSize = k, default thresholds and no RETRY,
\* N > k requests issued synchronously produce exactly ceil(N/k)
\* invocations, the full ones of k consecutive inputs in arrival order
C6_CeilBatches ==
    C6_Options /\ phase \in {"burst", "drain", "aborted"} =>
        /\ C6_Chunks
        /\ callCount <= CeilDiv(Len(deferred), maxBatchSize)
        /\ (Len(deferred) > maxBatchSize /\ inputQueue = <<>>) =>
              callCount = CeilDiv(Len(deferred), maxBatchSize)

\* C6 amended: the same, provided no delayFunction awaitable is rejected
C6_CeilBatchesUnlessAborted ==
    C6_Options /\ phase \in {"burst", "drain"} =>
        /\ C6_Chunks
        /\ callCount <= CeilDiv(Len(deferred), maxBatchSize)
        /\ (Len(deferred) > maxBatchSize /\ inputQueue = <<>>) =>
              callCount = CeilDiv(Len(deferred), maxBatchSize)

\* three requests with maxBatchSize 2: the timer dispatches the remainder
\* as the second batch
C6_Witness ==
    /\ C6_Options /\ maxBatchSize = 2 /\ phase = "drain"
    /\ lastOp.op = "timer" /\ callCount = 2 /\ Len(deferred) = 3
    /\ \E i \in CallsOfStep : lastOp.trace[i].promises = <<3>>

\* a getResult call that fills the queue up to maxBatchSize, with the
\* threshold met, no delayFunction and no run already committed, invokes
\* batchingFunction before it returns and leaves no timer behind
C7_InstantStart ==
    (/\ lastOp'.op = "getResult"
     /\ Len(inputQueue) + 1 = maxBatchSize
     /\ Len(inputQueue) + 1 >= ThresholdAt(activePromiseCount)
     /\ ~hasDelayFunction
     /\ ~(waiting /\ ~waitTimeout)) =>
        /\ callCount' = callCount + 1
        /\ timers' = 0
        /\ \E i \in 1..Len(lastOp'.trace) :
              /\ lastOp'.trace[i].ev = "call"
              /\ lastOp'.trace[i].queued = maxBatchSize

\* a getResult call that leaves the queue below maxBatchSize invokes nothing
C7_NoStartBelow ==
    (lastOp'.op = "getResult" /\ Len(inputQueue) + 1 < maxBatchSize) =>
        callCount' = callCount

\* the same, when no request is marked by send()
C7_NoStartBelowUnmarked ==
    (/\ lastOp'.op = "getResult"
     /\ Len(inputQueue) + 1 < maxBatchSize
     /\ immediateCount = 0) =>
        callCount' = callCount

\* C7 as stated: instant start at maxBatchSize, and no invocation by a
\* getResult call that leaves the queue below maxBatchSize
C7_InstantStartOnlyAtMax == [][C7_InstantStart /\ C7_NoStartBelow]_vars

\* C7 amended: the second half holds when the immediate-flush count is zero
C7_InstantStartOnlyAtMaxUnmarked ==
    [][C7_InstantStart /\ C7_NoStartBelowUnmarked]_vars

\* the second getResult call filled a batch of two, which cancelled the
\* pending timer and started at once
C7_Witness ==
    /\ lastOp.op = "getResult" /\ ~hasDelayFunction /\ maxBatchSize = 2
    /\ Len(lastOp.trace) = 3
    /\ lastOp.trace[1].ev = "timerCleared"
    /\ lastOp.trace[3].ev = "call" /\ lastOp.trace[3].queued = 2

\* C8 as stated: whenever batchingFunction is invoked, the number of
\* requests queued just before the batch was extracted is at least the
\* threshold for the active-batch count of that moment
C8_ThresholdMetAtDispatch ==
    \A i \in CallsOfStep :
        lastOp.trace[i].queued >= ThresholdAt(lastOp.trace[i].active)

\* the same for nondecreasing thresholds
C8_ThresholdMetAtDispatchMonotone ==
    (\A i \in 1..(Len(queuingThresholds) - 1) :
        queuingThresholds[i] <= queuingThresholds[i + 1])
    => C8_ThresholdMetAtDispatch

\* C9: a batch is committed (a timer set, a run started at once, and from
\* there delayFunction or batchingFunction called) only by a trigger
\* evaluation that finds the queue at or above the threshold for the
\* current active-batch count, also when the queue has reached maxBatchSize
C9_NoCommitBelowThreshold ==
    \A i \in 1..Len(lastOp.trace) :
        LET e == lastOp.trace[i]
        IN  /\ e.ev \in {"timerSet", "runNow"} =>
                  e.queued >= ThresholdAt(e.active)
            /\ e.ev = "timerCleared" =>
                  i < Len(lastOp.trace) /\ lastOp.trace[i + 1].ev = "runNow"
            /\ e.ev = "delayCall" =>
                  IF i = 1 THEN lastOp.op = "timer"
                  ELSE lastOp.trace[i - 1].ev = "runNow"
            /\ e.ev = "call" =>
                  IF i = 1 THEN lastOp.op \in {"timer", "delayResolved"}
                  ELSE lastOp.trace[i - 1].ev \in {"runNow", "delayCall"}

\* a getResult call found a full queue below the threshold of the running
\* batch and committed nothing
C9_Witness ==
    /\ lastOp.op = "getResult" /\ lastOp.trace = <<>>
    /\ Len(inputQueue) >= maxBatchSize
    /\ Len(inputQueue) < ThresholdAt(activePromiseCount)
    /\ activePromiseCount >= 1
    /\ ~waiting /\ timers = 0 /\ ~delayPending

Position(q, x) == CHOOSE i \in 1..Len(q) : q[i] = x

\* C10: every batch is a prefix of the pending queue at the moment of its
\* dispatch; and of two requests that were never retried the one submitted
\* later is never dispatched before the other: it is behind it in the
\* queue, behind it in the same batch, or in a later batch
C10_PrefixAndFifo ==
    /\ \A i \in CallsOfStep :
          LET e == lastOp.trace[i]
          IN  /\ Len(e.promises) <= Len(e.queue)
              /\ e.promises = SubSeq(e.queue, 1, Len(e.promises))
              /\ e.promises # <<>>
    /\ \A a, b \in DOMAIN deferred :
          (a < b /\ ~deferred[a].retried /\ ~deferred[b].retried) =>
            /\ a \in Range(outputQueue) =>
                  /\ b \in Range(outputQueue)
                  /\ Position(outputQueue, a) < Position(outputQueue, b)
            /\ \A ba, bb \in batches :
                  (a \in Range(ba.promises) /\ b \in Range(bb.promises)) =>
                    IF ba = bb
                    THEN Position(ba.promises, a) < Position(ba.promises, b)
                    ELSE ba.call < bb.call

\* two batches in flight that split three requests in arrival order, with
\* the third request dispatched together with the second
C10_Witness ==
    /\ Cardinality(batches) = 2
    /\ \E ba, bb \in batches :
          ba.promises = <<1>> /\ bb.promises = <<2, 3>> /\ ba.call < bb.call
    /\ retries = 0

\* the requeue entries of the step that led here
RequeuesOfStep == {i \in 1..Len(lastOp.trace) : lastOp.trace[i].ev = "requeue"}

\* the promises dispatched by the invocations the last step made after its
\* trace entry i
DispatchedAfter(i) ==
    UNION {Range(lastOp.trace[j].promises) :
              j \in {k \in CallsOfStep : k > i}}

\* the requests at the retry positions go back, and only they
C11_ExactlyTheRetried ==
    lastOp.op = "batch" /\ lastOp.out.kind = "array" =>
        LET b == lastOp.batch
            S == RetryPositions(lastOp.out.outputs, 1)
        IN  /\ S = <<>> => RequeuesOfStep = {}
            /\ S # <<>> =>
                  /\ RequeuesOfStep = {1}
                  /\ lastOp.trace[1].promises = Pick(b.promises, S)
                  /\ \A k \in 1..Len(S) :
                        \E q \in 1..Len(lastOp.trace[1].queue) :
                            /\ lastOp.trace[1].queue[q] = b.promises[S[k]]
                            /\ lastOp.trace[1].inputs[q] = b.inputs[S[k]]
                  \* the promise is the original one, not settled by this
                  \* batch: it is pending, or a batch started later in
                  \* this step took it
                  /\ \A k \in 1..Len(S) :
                        LET p == b.promises[S[k]]
                        IN  /\ deferred[p].retried
                            /\ \/ deferred[p].st = "pending"
                               \/ p \in DispatchedAfter(1)
            /\ \A i \in 1..Len(b.promises) :
                  lastOp.out.outputs[i] # BATCHER_RETRY_TOKEN =>
                      /\ deferred[b.promises[i]].st # "pending"
                      /\ deferred[b.promises[i]].val = lastOp.out.outputs[i]
                      /\ \A j \in RequeuesOfStep :
                            b.promises[i] \notin Range(lastOp.trace[j].queue)
                      /\ b.promises[i] \notin Range(outputQueue)

\* a request carries the input it was submitted with for as long as its
\* promise is pending, in the queue and in a batch
C11_OriginalInputs ==
    /\ Len(inputQueue) = Len(outputQueue)
    /\ \A k \in 1..Len(outputQueue) :
          /\ deferred[outputQueue[k]].st = "pending"
          /\ inputQueue[k] = deferred[outputQueue[k]].input
    /\ \A b \in batches : \A k \in 1..Len(b.promises) :
          /\ deferred[b.promises[k]].st = "pending"
          /\ b.inputs[k] = deferred[b.promises[k]].input

\* the token reaches no caller
C11_TokenNotDelivered ==
    \A id \in DOMAIN deferred : deferred[id].val # BATCHER_RETRY_TOKEN

\* a later batch that answers a retried request with a value resolves it
C11_RetriedThenResolved ==
    lastOp.op = "batch" /\ lastOp.out.kind = "array" =>
        \A i \in 1..Len(lastOp.batch.promises) :
            LET p == lastOp.batch.promises[i]
            IN  (deferred[p].retried /\ lastOp.out.outputs[i] \in Values) =>
                    /\ deferred[p].st = "resolved"
                    /\ deferred[p].val = lastOp.out.outputs[i]

\* C11: when a batch result holds the retry token at a set S of positions,
\* exactly the requests at S are put back in the queue with their original
\* input and their original, unsettled promise; every other request is
\* settled from this batch; the token is never delivered to a caller; and
\* a later batch that answers a retried request with a value resolves it
C11_RetryExactlyTheMarked ==
    /\ C11_ExactlyTheRetried
    /\ C11_OriginalInputs
    /\ C11_TokenNotDelivered
    /\ C11_RetriedThenResolved

\* a batch of two retried its second request and resolved the first; the
\* retried request went out again, with its input, and was resolved
C11_Witness ==
    /\ lastOp.op = "batch" /\ lastOp.out.kind = "array"
    /\ lastOp.batch.promises = <<2>> /\ lastOp.batch.inputs = <<"b">>
    /\ lastOp.batch.call = 2
    /\ deferred[2].retried /\ deferred[2].st = "resolved"
    /\ deferred[2].val = "y"
    /\ ~deferred[1].retried /\ deferred[1].st = "resolved"
    /\ deferred[1].val = "x"

\* the requeue puts the retried requests, in batch order, in front of
\* everything that was queued
C12_RequeuedAtFront ==
    \A i \in 1..Len(lastOp'.trace) :
        lastOp'.trace[i].ev = "requeue" =>
            LET e == lastOp'.trace[i]
                S == RetryPositions(lastOp'.out.outputs, 1)
            IN  /\ lastOp'.op = "batch"
                /\ e.queue = Pick(lastOp'.batch.promises, S) \o outputQueue
                /\ e.inputs = Pick(lastOp'.batch.inputs, S) \o inputQueue

\* a batch dispatched in the step of the requeue starts with them
C12_NextBatchStartsWithThem ==
    \A i \in RequeuesOfStep : \A j \in CallsOfStep :
        (j > i /\ \A k \in CallsOfStep : k > i => k >= j) =>
            LET e == lastOp.trace[i]
                c == lastOp.trace[j]
                n == Min(Len(e.promises), Len(c.promises))
            IN  /\ c.queue = e.queue
                /\ SubSeq(c.promises, 1, n) = SubSeq(e.promises, 1, n)

\* and so does a batch dispatched later: in the queue no request that was
\* never retried is ahead of one that was
C12_RetriedFirst ==
    \A i, j \in 1..Len(outputQueue) :
        (i < j /\ deferred[outputQueue[j]].retried) =>
            deferred[outputQueue[i]].retried

FirstStart(trace) ==
    IF \E i \in 1..Len(trace) : trace[i].ev \in {"call", "delayCall"}
    THEN CHOOSE i \in 1..Len(trace) :
            /\ trace[i].ev \in {"call", "delayCall"}
            /\ \A j \in 1..(i - 1) : trace[j].ev \notin {"call", "delayCall"}
    ELSE 0

C13_SendStartsTheRun ==
    (/\ lastOp'.op = "send"
     /\ inputQueue # <<>>
     /\ Len(inputQueue) >= ThresholdAt(activePromiseCount)
     /\ ~delayPending) =>
        LET t == lastOp'.trace
            f == FirstStart(t)
        IN  /\ f > 0
            /\ t[f].ev = (IF hasDelayFunction THEN "delayCall" ELSE "call")
            /\ t[f].queued = Len(inputQueue)
            /\ t[f - 1].ev = "runNow"
            /\ waitTimeout => t[1].ev = "timerCleared" /\ timers = 1
            /\ timers' = 0 /\ ~waitTimeout'
            /\ ~hasDelayFunction => callCount' > callCount

\* C13: a send() called while the queue is non-empty, the threshold for
\* the current active-batch count is met and no delayFunction awaitable is
\* pending cancels the pending queuing-delay timer and starts the batch
\* run inside the call: batchingFunction, or delayFunction when
\* configured, is invoked before send() returns
C13_SendBypassesDelay == [][C13_SendStartsTheRun]_vars

\* send() found a request waiting for the timer, cancelled the timer and
\* invoked batchingFunction with the request
C13_Witness ==
    /\ lastOp.op = "send" /\ ~hasDelayFunction
    /\ Len(lastOp.trace) = 3
    /\ lastOp.trace[1].ev = "timerCleared"
    /\ lastOp.trace[2].ev = "runNow"
    /\ lastOp.trace[3].ev = "call" /\ lastOp.trace[3].promises = <<1>>
    /\ timers = 0

\* a send() below the threshold, or behind a pending delay, does nothing
\* but mark the queue
C14_SendHeldBack ==
    (/\ lastOp'.op = "send"
     /\ \/ Len(inputQueue) < ThresholdAt(activePromiseCount)
        \/ delayPending) =>
        /\ lastOp'.trace = <<>>
        /\ callCount' = callCount
        /\ immediateCount' = Len(inputQueue)
        /\ UNCHANGED <<inputQueue, outputQueue, timers, waiting,
                       waitTimeout, delayPending, batches, deferred>>

\* the mark stays until the marked requests are taken out, or more are
\* put back in front of them
C14_StaysMarked ==
    (/\ lastOp'.op # "send"
     /\ \A i \in 1..Len(lastOp'.trace) :
           lastOp'.trace[i].ev \notin {"call", "requeue"}) =>
        immediateCount' = immediateCount

\* no timer is set for marked requests, and none of them is left waiting
\* with the threshold met
C14_MarkedRunAtOnce ==
    /\ \A i \in 1..Len(lastOp.trace) :
          lastOp.trace[i].ev = "timerSet" => lastOp.trace[i].immediate = 0
    /\ (immediateCount > 0 /\ inputQueue # <<>> /\ ~delayPending) =>
          Len(inputQueue) < ThresholdAt(activePromiseCount)

\* C14: a send() issued while the queue is below the threshold for the
\* current active-batch count, or while a delayFunction awaitable is
\* pending, dispatches nothing at that moment; the requests stay marked,
\* and the first later trigger evaluation that finds the threshold met
\* starts their run without the queuing-delay timer
C14_SendRespectsLimits ==
    /\ [][C14_SendHeldBack /\ C14_StaysMarked]_vars
    /\ []C14_MarkedRunAtOnce

\* a request marked by send() below the threshold of the active batch is
\* dispatched by the trigger evaluation that ends that batch, without a
\* timer
C14_Witness ==
    /\ lastOp.op = "batch" /\ queuingThresholds = <<1, 2>>
    /\ ~hasDelayFunction
    /\ Len(lastOp.trace) = 2
    /\ lastOp.trace[1].ev = "runNow"
    /\ lastOp.trace[1].immediate = 1 /\ lastOp.trace[1].queued = 1
    /\ lastOp.trace[1].active = 0
    /\ lastOp.trace[2].ev = "call"
    /\ timers = 0 /\ immediateCount = 0

\* a request submitted when every marked request has left the queue, below
\* maxBatchSize, waits for the queuing-delay timer
C15_LaterRequestWaits ==
    (/\ lastOp'.op = "getResult"
     /\ inputQueue = <<>>
     /\ 1 < maxBatchSize
     /\ 1 >= ThresholdAt(activePromiseCount)
     /\ ~delayPending) =>
        /\ Len(lastOp'.trace) = 1
        /\ lastOp'.trace[1].ev = "timerSet"
        /\ callCount' = callCount

\* C15 as stated: send() marks only the requests queued at the call; once
\* they all have left the queue, dispatched or rejected, the
\* immediate-flush count is zero and a request submitted afterwards goes
\* through the queuing-delay timer
C15_SendIsOneShot ==
    /\ [](inputQueue = <<>> => immediateCount = 0)
    /\ [][C15_LaterRequestWaits]_vars

\* the same on a batcher without delayFunction
C15_SendIsOneShotWithoutDelayFunction ==
    /\ [](~hasDelayFunction /\ inputQueue = <<>> => immediateCount = 0)
    /\ [][~hasDelayFunction => C15_LaterRequestWaits]_vars

\* the promises of the batches batchingFunction was called with in a trace
DispatchedIn(trace) ==
    UNION {Range(trace[j].promises) :
              j \in {k \in 1..Len(trace) : trace[k].ev = "call"}}

\* the entries of a trace where batchingFunction threw
ThrowsIn(trace) == {i \in 1..Len(trace) : trace[i].ev = "threw"}

\* C16: when a batch result holds an Error at position i, only the promise
\* of the request at position i is rejected with it; every other request
\* of the batch is settled by its own element, and requests of other
\* batches and queued requests are not affected
C16_ErrorIsolation ==
    [][(lastOp'.op = "batch" /\ lastOp'.out.kind = "array") =>
        LET b == lastOp'.batch
            o == lastOp'.out.outputs
        IN  /\ \A i \in 1..Len(b.promises) :
                  LET p == deferred'[b.promises[i]]
                  IN  /\ o[i] \in Errors => p.st = "rejected" /\ p.val = o[i]
                      /\ o[i] \in Values => p.st = "resolved" /\ p.val = o[i]
                      /\ o[i] = BATCHER_RETRY_TOKEN =>
                            \/ p.st = "pending"
                            \/ b.promises[i] \in DispatchedIn(lastOp'.trace)
            \* the rest is untouched, unless a batch started in this step
            \* took it
            /\ \A id \in DOMAIN deferred :
                  id \notin Range(b.promises) =>
                      \/ deferred'[id] = deferred[id]
                      \/ id \in DispatchedIn(lastOp'.trace)
            /\ \A id \in Range(outputQueue) :
                  \/ id \in Range(outputQueue')
                  \/ id \in DispatchedIn(lastOp'.trace)
            /\ \A b2 \in batches : b2 # b => b2 \in batches'
      ]_vars

\* of a batch of two the first request was rejected with the Error and the
\* second resolved with its value, while a third request stayed queued
\* and another batch stayed in flight
C16_Witness ==
    /\ lastOp.op = "batch" /\ lastOp.out.kind = "array"
    /\ lastOp.out.outputs = <<"E", "x">>
    /\ Len(deferred) = 3
    /\ \E id \in DOMAIN deferred :
          id \notin Range(lastOp.batch.promises) /\ deferred[id].st = "pending"
    /\ deferred[lastOp.batch.promises[1]].st = "rejected"
    /\ deferred[lastOp.batch.promises[2]].st = "resolved"

\* the batches that failed as a whole in the step that led here: the one
\* whose awaitable was rejected and those batchingFunction threw for
C17_FailedPromises ==
    (IF lastOp.op = "batch" /\ lastOp.out.kind = "rejected"
     THEN Range(lastOp.batch.promises) ELSE {})
    \cup UNION {Range(lastOp.trace[i].promises) : i \in ThrowsIn(lastOp.trace)}

C17_AllRejected ==
    /\ \A id \in C17_FailedPromises :
          /\ deferred[id].st = "rejected"
          /\ deferred[id].val = BatchError
          /\ id \notin Range(outputQueue)
          /\ \A b \in batches : id \notin Range(b.promises)
    /\ (lastOp.op = "batch" /\ lastOp.out.kind = "rejected") =>
          RequeuesOfStep = {}
    \* nothing is put back after a throw
    /\ \A i \in ThrowsIn(lastOp.trace) : \A j \in RequeuesOfStep : j < i

\* the call in which batchingFunction throws returns normally, the
\* active-batch count drops by one for each failed batch, and nothing else
\* is rejected or removed
C17_NothingElse ==
    ((lastOp'.op = "batch" /\ lastOp'.out.kind = "rejected")
        \/ ThrowsIn(lastOp'.trace) # {}) =>
        /\ lastOp'.op = "getResult" =>
              /\ Len(deferred') = Len(deferred) + 1
              /\ \/ deferred'[Len(deferred')].st = "pending"
                 \/ \E i \in ThrowsIn(lastOp'.trace) :
                       Len(deferred') \in Range(lastOp'.trace[i].promises)
        /\ activePromiseCount' =
              activePromiseCount
              + Cardinality({i \in 1..Len(lastOp'.trace) :
                                lastOp'.trace[i].ev = "call"})
              - Cardinality(ThrowsIn(lastOp'.trace))
              - (IF lastOp'.op = "batch" THEN 1 ELSE 0)
        /\ activePromiseCount' = Cardinality(batches')
        /\ \A id \in DOMAIN deferred :
              \/ deferred'[id] = deferred[id]
              \/ id \in Range(lastOp'.batch.promises)
              \/ \E i \in ThrowsIn(lastOp'.trace) :
                    id \in Range(lastOp'.trace[i].promises)
        /\ \A id \in Range(outputQueue) :
              \/ id \in Range(outputQueue')
              \/ id \in DispatchedIn(lastOp'.trace)
        /\ \A b2 \in batches : b2 # lastOp'.batch => b2 \in batches'

\* C17: when batchingFunction throws or its awaitable is rejected with e,
\* getResult and send do not throw, every promise of the batch is rejected
\* with e, none is requeued, the active-batch count is decremented once,
\* and requests that are queued or in other batches are neither rejected
\* nor removed
C17_BatchFailure == []C17_AllRejected /\ [][C17_NothingElse]_vars

\* batchingFunction threw inside a getResult call for the second request,
\* while the batch of the first is still in flight
C17_Witness ==
    /\ lastOp.op = "getResult"
    /\ \E i \in ThrowsIn(lastOp.trace) : lastOp.trace[i].promises = <<2>>
    /\ deferred[2].st = "rejected" /\ deferred[2].val = BatchError
    /\ deferred[1].st = "pending"
    /\ \E b \in batches : b.promises = <<1>>
    /\ activePromiseCount = 1

\* C18: when batchingFunction yields a non-array, or an array of another
\* length than the batch, every promise of the batch is rejected with the
\* descriptive error, none is resolved, none is requeued (also when the
\* array holds retry tokens), and none is left unsettled
C18_StructuralViolation ==
    [][(lastOp'.op = "batch" /\ lastOp'.out.kind \in {"notArray", "badLength"}) =>
        /\ \A i \in 1..Len(lastOp'.batch.promises) :
              LET id == lastOp'.batch.promises[i]
              IN  /\ deferred[id].st = "pending"
                  /\ deferred'[id].st = "rejected"
                  /\ deferred'[id].val =
                        (IF lastOp'.out.kind = "notArray"
                         THEN NotArrayError ELSE LengthError)
                  /\ deferred'[id].retried = deferred[id].retried
                  /\ id \notin Range(outputQueue')
        /\ \A i \in 1..Len(lastOp'.trace) : lastOp'.trace[i].ev # "requeue"
        /\ retries' = retries
      ]_vars

\* an answer of one element, a retry token, for a batch of two: both
\* requests are rejected with the length error
C18_Witness ==
    /\ lastOp.op = "batch" /\ lastOp.out.kind = "badLength"
    /\ lastOp.out.outputs = <<BATCHER_RETRY_TOKEN>>
    /\ Len(lastOp.batch.promises) = 2
    /\ \A i \in 1..2 :
          /\ deferred[lastOp.batch.promises[i]].st = "rejected"
          /\ deferred[lastOp.batch.promises[i]].val = LengthError

\* C19: when delayFunction fails with e, every request that is in the
\* queue when the failure is handled, also those that arrived after
\* delayFunction was called and those beyond maxBatchSize, is removed and
\* rejected with e, batchingFunction is not invoked for that run, and the
\* committed flag is cleared
C19_DelayFailureAbortsQueue ==
    [][lastOp'.op = "delayRejected" =>
        /\ delayPending /\ waiting
        /\ \A id \in Range(outputQueue) :
              /\ deferred[id].st = "pending"
              /\ deferred'[id].st = "rejected"
              /\ deferred'[id].val = DelayError
        /\ \A id \in DOMAIN deferred :
              id \notin Range(outputQueue) => deferred'[id] = deferred[id]
        /\ inputQueue' = <<>> /\ outputQueue' = <<>>
        /\ callCount' = callCount /\ lastOp'.trace = <<>>
        /\ batches' = batches
        /\ activePromiseCount' = activePromiseCount
        /\ ~waiting' /\ ~delayPending'
      ]_vars

\* with maxBatchSize 1, three requests were queued when the delay failed,
\* and all three are rejected with its error
C19_Witness ==
    /\ lastOp.op = "delayRejected" /\ maxBatchSize = 1
    /\ Len(deferred) = 3
    /\ \A id \in 1..3 :
          deferred[id].st = "rejected" /\ deferred[id].val = DelayError
    /\ callCount = 0

\* a batch-level failure or a delay-function failure has been handled
C20_Failed ==
    \E id \in DOMAIN deferred :
        deferred[id].val \in {BatchError, DelayError, NotArrayError, LengthError}

\* the flags and counters say what is really outstanding: the committed
\* flag is set only for a pending timer or a pending delay, there is no
\* timer without its handle, and the active-batch count counts the
\* batches in flight
C20_Consistent ==
    /\ waiting = (waitTimeout \/ delayPending)
    /\ ~(waitTimeout /\ delayPending)
    /\ timers = (IF waitTimeout THEN 1 ELSE 0)
    /\ activePromiseCount = Cardinality(batches)

\* queued requests that meet the threshold are scheduled
C20_Scheduled ==
    (inputQueue # <<>> /\ Len(inputQueue) >= ThresholdAt(activePromiseCount))
        => (timers = 1 \/ delayPending)

\* a request submitted after the failure is scheduled or dispatched by the
\* getResult call as soon as the threshold is met, when no run is
\* scheduled already
C20_NextRequestScheduled ==
    (/\ C20_Failed
     /\ lastOp'.op = "getResult"
     /\ Len(inputQueue) + 1 >= ThresholdAt(activePromiseCount)
     /\ ~waiting) =>
        /\ lastOp'.trace # <<>>
        /\ lastOp'.trace[1].ev \in {"timerSet", "timerCleared", "runNow"}

\* C20: after a batch-level failure or a delay-function failure has been
\* handled the batcher is not wedged: the committed flag is clear unless
\* a run is pending, no stale timer is pending, the active-batch count no
\* longer counts the failed batch, and a request submitted afterwards is
\* scheduled, dispatched and settled
C20_RecoveryAfterFailure ==
    /\ [](C20_Failed => C20_Consistent /\ C20_Scheduled)
    /\ [][C20_NextRequestScheduled]_vars
    /\ [][C2_Progress]_vars
    /\ [](C20_Failed /\ queuingThresholds[1] = 1 /\ AtRest => NonePending)

\* the first request was rejected by a delay-function failure, the second
\* by a failure of batchingFunction, and the third, submitted after both,
\* was resolved
C20_Witness ==
    /\ Len(deferred) = 3
    /\ deferred[1].st = "rejected" /\ deferred[1].val = DelayError
    /\ deferred[2].st = "rejected" /\ deferred[2].val = BatchError
    /\ deferred[3].st = "resolved"
    /\ lastOp.op = "batch" /\ lastOp.batch.promises = <<3>>
    /\ AtRest

\* with the default thresholds whatever is queued is scheduled, whether or
\* not batches are in flight
C21_AlwaysScheduled ==
    (queuingThresholds = <<1>> /\ inputQueue # <<>>) =>
        (timers = 1 \/ delayPending)

\* the scheduled run dispatches a new batch next to the ones in flight
C21_DispatchedBesideTheOthers ==
    (/\ queuingThresholds = <<1>>
     /\ \/ lastOp'.op = "timer" /\ ~hasDelayFunction
        \/ lastOp'.op = "delayResolved") =>
        /\ lastOp'.trace # <<>>
        /\ lastOp'.trace[1].ev = "call"
        /\ lastOp'.trace[1].active = Cardinality(batches)
        /\ lastOp'.trace[1].promises # <<>>
        /\ batches \subseteq batches'
        /\ \A b \in batches : \A k \in 1..Len(b.promises) :
              deferred'[b.promises[k]] = deferred[b.promises[k]]

\* the batch that completes settles its own requests; the batches still in
\* flight keep theirs pending
C21_OwnResultsOnly ==
    lastOp'.op = "batch" =>
        /\ lastOp'.batch \in batches
        /\ \A b \in batches : b # lastOp'.batch =>
              /\ b \in batches'
              /\ \A k \in 1..Len(b.promises) :
                    /\ deferred'[b.promises[k]] = deferred[b.promises[k]]
                    /\ deferred'[b.promises[k]].st = "pending"
        /\ lastOp'.out.kind = "array" =>
              \A k \in 1..Len(lastOp'.batch.promises) :
                  lastOp'.out.outputs[k] \in Values \cup Errors =>
                      deferred'[lastOp'.batch.promises[k]].val =
                          lastOp'.out.outputs[k]

\* C21: with the default thresholds a request submitted while a batch is
\* in flight is scheduled and dispatched in a new batch without waiting
\* for that batch, so that several batches are active at once; each
\* batch's results go to its own requests only, whichever completes first
C21_ConcurrentBatches ==
    /\ []C21_AlwaysScheduled
    /\ [][C21_DispatchedBesideTheOthers /\ C21_OwnResultsOnly]_vars

\* two batches were active at once; the one dispatched second completed
\* first and resolved its request, the first one is still in flight
C21_Witness ==
    /\ queuingThresholds = <<1>> /\ maxBatchSize = Infinity
    /\ lastOp.op = "batch" /\ lastOp.batch.call = 2
    /\ lastOp.batch.promises = <<2>> /\ deferred[2].st = "resolved"
    /\ \E b \in batches : b.call = 1 /\ b.promises = <<1>>
    /\ deferred[1].st = "pending"
    /\ activePromiseCount = 1

\* ------------------------------------------------------------------------
\* C22: idling is true exactly when the pending queue is empty and no batch
\* is active: true on a fresh batcher, false while a batch is in flight or
\* a request is queued, also while a timer or a delay function is pending,
\* and true again once all work has completed
\* ------------------------------------------------------------------------
C22_FreshIsIdle == deferred = <<>> => Idling(Cur)

C22_BusyIsNotIdle ==
    (batches # {} \/ outputQueue # <<>> \/ timers > 0 \/ waitTimeout
     \/ delayPending \/ waiting) => ~Idling(Cur)

C22_DoneIsIdle == (deferred # <<>> /\ AtRest /\ NonePending) => Idling(Cur)

\* the getResult calls after which the batcher is idle again are those in
\* which batchingFunction threw
C22_IdleAfterGetResultOnlyByThrow ==
    (lastOp.op = "getResult" /\ Idling(Cur)) =>
        /\ ThrowsIn(lastOp.trace) # {}
        /\ deferred[Len(deferred)].st = "rejected"

\* C22 as stated: idling is false immediately after any getResult call
C22_NotIdleAfterGetResult == lastOp.op = "getResult" => ~Idling(Cur)

\* C22 amended: idling is false after a getResult call unless
\* batchingFunction threw inside that call, which rejects the batch and
\* leaves the batcher idle
C22_Idling ==
    /\ C22_FreshIsIdle
    /\ C22_BusyIsNotIdle
    /\ C22_DoneIsIdle
    /\ C22_IdleAfterGetResultOnlyByThrow

\* a batcher that is busy after a getResult call and one that is idle again
\* after its work
C22_Witness ==
    /\ lastOp.op = "batch"
    /\ Len(deferred) >= 2
    /\ NonePending
    /\ Idling(Cur)
    /\ callCount >= 2

\* ------------------------------------------------------------------------
\* The promises of idlePromise
\* ------------------------------------------------------------------------
\* the promises of idlePromise that the step resolves
ResolvedByStep ==
    {i \in DOMAIN idleCalls :
        idleCalls[i].st = "pending" /\ idleCalls'[i].st = "resolved"}

\* the step is a call of idlePromise
IdleCallStep == lastOp'.op = "idlePromise" /\ Len(idleCalls') = Len(idleCalls) + 1

\* a promise of idlePromise is resolved by a step that leaves the batcher
\* idle, with nothing queued, nothing scheduled and no batch in flight
C23_ResolvedOnlyWhenIdle ==
    ResolvedByStep # {} =>
        /\ inputQueue' = <<>> /\ outputQueue' = <<>>
        /\ activePromiseCount' = 0 /\ batches' = {}
        /\ timers' = 0 /\ ~delayPending'
        /\ lastOp'.trace # <<>>
        /\ lastOp'.trace[Len(lastOp'.trace)].ev = "idle"

\* called on an idle batcher it comes back resolved, and only then
C23_ImmediateExactlyWhenIdle ==
    IdleCallStep =>
        /\ idleCalls'[Len(idleCalls')].st = "resolved" <=> Idling(Cur)
        /\ \A i \in DOMAIN idleCalls : idleCalls'[i] = idleCalls[i]
        /\ inputQueue' = inputQueue /\ activePromiseCount' = activePromiseCount

\* a resolved promise stays resolved
C23_StaysResolved ==
    \A i \in DOMAIN idleCalls :
        idleCalls[i].st = "resolved" => idleCalls'[i] = idleCalls[i]

\* C23: a promise returned by idlePromise is resolved only in a state where
\* the batcher is idle; called on an idle batcher it resolves immediately;
\* it is never resolved while requests are still queued or another batch
\* is still in flight
C23_IdlePromiseSafety ==
    [][C23_ResolvedOnlyWhenIdle /\ C23_ImmediateExactlyWhenIdle
       /\ C23_StaysResolved]_vars

\* one promise resolved at the call on an idle batcher, another resolved by
\* the completion of the last of two batches
C23_Witness ==
    /\ lastOp.op = "batch"
    /\ callCount >= 2
    /\ \E i \in DOMAIN idleCalls :
          idleCalls[i].handle = 0 /\ idleCalls[i].st = "resolved"
    /\ \E i \in DOMAIN idleCalls :
          idleCalls[i].handle > 0 /\ idleCalls[i].st = "resolved"
    /\ lastOp.trace # <<>>
    /\ lastOp.trace[Len(lastOp.trace)].ev = "idle"

\* the promises of idlePromise that are not resolved yet
PendingIdleCalls == {i \in DOMAIN idleCalls : idleCalls[i].st = "pending"}

C24_ResolvedByTrigger ==
    (/\ lastOp'.op \in {"getResult", "send", "timer", "delayResolved", "batch"}
     /\ inputQueue' = <<>>
     /\ activePromiseCount' = 0) =>
        /\ idleHandle' = 0
        /\ \A i \in DOMAIN idleCalls' : idleCalls'[i].st = "resolved"

\* the failure of the delay function resolves nothing
C24_AbortResolvesNothing ==
    lastOp'.op = "delayRejected" =>
        /\ idleHandle' = idleHandle
        /\ idleCalls' = idleCalls
        /\ inputQueue' = <<>>

\* a promise is pending on an idle batcher only after a delay-function
\* failure that emptied the queue while no batch was active
C24_PendingWhileIdleOnlyAfterAbort ==
    (Idling(Cur) /\ PendingIdleCalls # {}) =>
        /\ idleHandle # 0
        /\ lastOp.op \in {"delayRejected", "idlePromise"}
        /\ \E id \in DOMAIN deferred : deferred[id].val = DelayError

CallsOfHandle(calls, g) == {i \in DOMAIN calls : calls[i].handle = g}

\* a pending promise of idlePromise is a promise of the one handle the
\* batcher holds, and the batcher holds a handle only for such promises
C25_OneHandle ==
    /\ \A i \in PendingIdleCalls : idleCalls[i].handle = idleHandle
    /\ idleHandle # 0 => CallsOfHandle(idleCalls, idleHandle) # {}
    /\ \A i \in DOMAIN idleCalls :
          idleCalls[i].handle = 0 => idleCalls[i].st = "resolved"
    /\ \A i, j \in DOMAIN idleCalls :
          idleCalls[i].handle = idleCalls[j].handle =>
              idleCalls[i].st = idleCalls[j].st

\* a call on a busy batcher that holds a handle gets that handle; one on a
\* busy batcher without a handle gets a new one, pending, that no earlier
\* promise has
C25_SharedOrFresh ==
    (IdleCallStep /\ ~Idling(Cur)) =>
        LET new == idleCalls'[Len(idleCalls')]
        IN  /\ new.st = "pending"
            /\ idleHandle' = new.handle
            /\ idleHandle # 0 => new.handle = idleHandle
            /\ idleHandle = 0 =>
                  /\ new.handle > 0
                  /\ CallsOfHandle(idleCalls, new.handle) = {}

\* the promises of a handle are resolved in one step, which discards the
\* handle
C25_ResolvedTogether ==
    ResolvedByStep # {} =>
        /\ ResolvedByStep = CallsOfHandle(idleCalls, idleHandle)
        /\ ResolvedByStep = PendingIdleCalls
        /\ idleHandle' = 0
        /\ \A i \in DOMAIN idleCalls' : idleCalls'[i].st = "resolved"

\* C25: the idlePromise calls made during one busy period share one wait
\* handle and are resolved together at the same idle transition; the
\* resolution discards the handle, so a call in a later busy period gets a
\* fresh handle that is pending until the next idle transition
C25_SharingAndRenewal ==
    /\ [](C25_OneHandle)
    /\ [][C25_SharedOrFresh /\ C25_ResolvedTogether]_vars

\* two promises of the first handle resolved together, and a promise of a
\* second handle pending in a later busy period
C25_Witness ==
    /\ Len(idleCalls) = 3
    /\ idleCalls[1] = [handle |-> 1, st |-> "resolved"]
    /\ idleCalls[2] = [handle |-> 1, st |-> "resolved"]
    /\ idleCalls[3] = [handle |-> 2, st |-> "pending"]
    /\ idleHandle = 2
    /\ ~Idling(Cur)

\* ------------------------------------------------------------------------
\* C26: construction fails with an error, and yields no usable batcher,
\* exactly when queuingThresholds is an empty array, some entry of it is
\* below 1, maxBatchSize is given and below 1, or queuingDelay is given and
\* below 0; in every other case it succeeds with the defaults maxBatchSize
\* unbounded, queuingDelay 1, queuingThresholds [1], an empty queue and
\* zero counters
\* ------------------------------------------------------------------------
C26_EmptyThresholds ==
    options.queuingThresholds # <<>> /\ options.queuingThresholds[1] = <<>>

C26_LowThreshold ==
    /\ options.queuingThresholds # <<>>
    /\ \E i \in 1..Len(options.queuingThresholds[1]) :
          options.queuingThresholds[1][i] < 1

C26_LowBatchSize == options.maxBatchSize # <<>> /\ options.maxBatchSize[1] < 1

C26_LowDelay == options.queuingDelay # <<>> /\ options.queuingDelay[1] < 0

C26_FailsExactlyWhenInvalid ==
    constructed # "pending" =>
        (constructed # "ok" <=>
            (C26_EmptyThresholds \/ C26_LowThreshold \/ C26_LowBatchSize
             \/ C26_LowDelay))

\* the error names the first option that is wrong
C26_Message ==
    /\ constructed = ThresholdsEmptyError => C26_EmptyThresholds
    /\ constructed = ThresholdsRangeError => C26_LowThreshold
    /\ constructed = MaxBatchSizeError => C26_LowBatchSize
    /\ constructed = QueuingDelayError => C26_LowDelay

\* after a failed construction there is no batcher and no request was
\* ever taken
C26_NothingUsable ==
    constructed \notin {"pending", "ok"} =>
        /\ queuingThresholds = <<>> /\ maxBatchSize = 0 /\ queuingDelay = 0
        /\ deferred = <<>> /\ lastOp.op = "new"
        /\ ~ENABLED ConstructNext

C26_Defaults ==
    constructed = "ok" =>
        /\ maxBatchSize = IF options.maxBatchSize = <<>> THEN Infinity
                          ELSE options.maxBatchSize[1]
        /\ queuingDelay = IF options.queuingDelay = <<>> THEN 1
                          ELSE options.queuingDelay[1]
        /\ queuingThresholds = IF options.queuingThresholds = <<>> THEN <<1>>
                               ELSE options.queuingThresholds[1]
        /\ hasDelayFunction = options.delayFunction
        /\ lastOp.op = "new" =>
              /\ inputQueue = <<>> /\ outputQueue = <<>>
              /\ activePromiseCount = 0 /\ immediateCount = 0
              /\ ~waiting /\ ~waitTimeout /\ timers = 0
              /\ ENABLED FirstGetResult

C26_Construction ==
    /\ C26_FailsExactlyWhenInvalid
    /\ C26_Message
    /\ C26_NothingUsable
    /\ C26_Defaults

\* a batcher constructed with none of the three options, holding the
\* defaults
C26_Witness ==
    /\ constructed = "ok"
    /\ lastOp.op = "new"
    /\ options.queuingThresholds = <<>>
    /\ options.maxBatchSize = <<>>
    /\ options.queuingDelay = <<>>
    /\ maxBatchSize = Infinity /\ queuingDelay = 1 /\ queuingThresholds = <<1>>

\* ------------------------------------------------------------------------
\* C27: the active-batch count equals the number of batches for which
\* batchingFunction has been invoked and result distribution has not
\* finished; it goes up once per dispatched batch and down once per batch,
\* whatever its outcome, only after the promises of that batch were
\* settled or requeued, and it is never negative
\* ------------------------------------------------------------------------
C27_CountsTheBatches ==
    /\ activePromiseCount = Cardinality(batches)
    /\ activePromiseCount >= 0
    /\ \A b1, b2 \in batches : b1.call = b2.call => b1 = b2

\* up once per invocation, down once per completion and once per throw
C27_StepAccounting ==
    LET up == Cardinality({i \in 1..Len(lastOp'.trace) :
                              lastOp'.trace[i].ev = "call"})
        thrown == Cardinality(ThrowsIn(lastOp'.trace))
        done == IF lastOp'.op = "batch" THEN 1 ELSE 0
    IN  /\ activePromiseCount' = activePromiseCount + up - thrown - done
        /\ lastOp'.op = "batch" =>
              /\ lastOp'.batch \in batches
              /\ lastOp'.batch \notin batches'
        /\ \A i \in 1..Len(lastOp'.trace) :
              LET e == lastOp'.trace[i]
              IN  /\ e.active >= 0
                  /\ (e.ev = "call" /\ i < Len(lastOp'.trace)) =>
                        lastOp'.trace[i + 1].active = e.active + 1
                  /\ e.ev = "threw" =>
                        /\ e.active >= 1
                        /\ i < Len(lastOp'.trace) =>
                              lastOp'.trace[i + 1].active = e.active - 1

\* the batch is counted while its requests are requeued, and counted down
\* before the closing trigger evaluation; when it is counted down every
\* request of it is settled or back in the queue
C27_DownAfterDistribution ==
    lastOp'.op = "batch" =>
        LET tr == lastOp'.trace
            b == lastOp'.batch
            back == {i \in 1..Len(tr) :
                        tr[i].ev = "requeue"
                        /\ Range(tr[i].promises) \subseteq Range(b.promises)}
        IN  /\ \A i \in back : i = 1 /\ tr[i].active = activePromiseCount
            /\ \A i \in 1..Len(tr) :
                  (i \notin back /\ \A j \in 1..(i - 1) : j \in back) =>
                      tr[i].active = activePromiseCount - 1
            /\ \A k \in 1..Len(b.promises) :
                  \/ deferred'[b.promises[k]].settles >= 1
                  \/ \E i \in back : b.promises[k] \in Range(tr[i].promises)
            /\ \A i \in ThrowsIn(tr) :
                  \A id \in Range(tr[i].promises) :
                      deferred'[id].st = "rejected"

C27_ActiveBatchCounter ==
    /\ [](C27_CountsTheBatches)
    /\ [][C27_StepAccounting /\ C27_DownAfterDistribution]_vars

\* a completion with a retry while another batch is in flight, after which
\* the requeued request is dispatched again
C27_Witness ==
    /\ lastOp.op = "batch"
    /\ RequeuesOfStep # {}
    /\ CallsOfStep # {}
    /\ activePromiseCount = 2
    /\ Cardinality(batches) = 2

\* ------------------------------------------------------------------------
\* C28: when a batch finishes and the count it leaves makes the threshold
\* satisfied for the requests still queued, a batch is committed in that
\* same step, by a timer or an immediate run; with queuingThresholds[0] = 1
\* the requests held back only by a higher threshold are therefore
\* dispatched once the active batches complete
\* ------------------------------------------------------------------------
\* the requests were held back by the threshold before the step
C28_HeldBack ==
    /\ inputQueue # <<>>
    /\ ~waiting
    /\ Len(inputQueue) < ThresholdAt(activePromiseCount)

\* after the completion of a batch the queued requests that meet the
\* threshold are committed: a timer or a delay function is pending
C28_CommittedAfterCompletion ==
    (/\ lastOp'.op = "batch"
     /\ inputQueue' # <<>>
     /\ Len(inputQueue') >= ThresholdAt(activePromiseCount')) =>
        /\ waiting'
        /\ timers' = 1 \/ delayPending'

\* held-back requests that meet the threshold of the lower count are
\* committed by the completion step itself
C28_CommittedInTheStep ==
    (/\ lastOp'.op = "batch"
     /\ C28_HeldBack
     /\ Len(inputQueue) >= ThresholdAt(activePromiseCount - 1)) =>
        \E i \in 1..Len(lastOp'.trace) :
            lastOp'.trace[i].ev \in {"timerSet", "runNow"}

\* with a first threshold of 1 nothing stays queued and uncommitted when no
\* batch is active
C28_NothingLeftBehind ==
    (queuingThresholds[1] = 1 /\ batches = {} /\ outputQueue # <<>>) =>
        /\ waiting
        /\ timers = 1 \/ delayPending

\* the last step was the completion of a batch whose closing trigger
\* evaluation started the run of requests that had been held back, and
\* that run waits on the delay function
C28_HeldBackRunPending ==
    /\ lastOp.op = "batch"
    /\ RequeuesOfStep = {}
    /\ lastOp.trace # <<>>
    /\ lastOp.trace[1].ev = "runNow"
    /\ queuingThresholds[1] = 1
    /\ delayPending
    /\ outputQueue # <<>>

\* C28 as stated: the requests that were held back are dispatched once the
\* active batches have completed
C28_HeldBackIsDispatched ==
    [][(C28_HeldBackRunPending
        /\ lastOp'.op \in {"delayResolved", "delayRejected"}) =>
            outputQueue[1] \in DispatchedIn(lastOp'.trace)]_vars

\* they are dispatched when the delay function lets the run go on, and
\* rejected without being dispatched when it fails
C28_DispatchedUnlessAborted ==
    C28_HeldBackRunPending =>
        /\ lastOp'.op = "delayResolved" =>
              outputQueue[1] \in DispatchedIn(lastOp'.trace)
        /\ lastOp'.op = "delayRejected" =>
              /\ lastOp'.trace = <<>>
              /\ callCount' = callCount
              /\ \A id \in Range(outputQueue) :
                    /\ deferred'[id].st = "rejected"
                    /\ deferred'[id].val = DelayError

\* C28 amended: the completion commits the held-back requests in the same
\* step, and with queuingThresholds[0] = 1 they are dispatched once the
\* active batches complete unless the delay function of their run fails,
\* which rejects them without dispatching them
C28_RetriggerOnCompletion ==
    /\ [][C28_CommittedAfterCompletion /\ C28_CommittedInTheStep
          /\ C28_DispatchedUnlessAborted /\ C2_Progress]_vars
    /\ [](C28_NothingLeftBehind)

\* a request that waited below the threshold of one active batch and was
\* committed by the completion of that batch
C28_Witness ==
    /\ lastOp.op = "batch"
    /\ RequeuesOfStep = {}
    /\ Len(queuingThresholds) = 2
    /\ queuingThresholds[1] = 1
    /\ queuingThresholds[2] = 2
    /\ lastOp.trace # <<>>
    /\ lastOp.trace[1].ev \in {"timerSet", "runNow"}
    /\ lastOp.trace[1].queued = 1
    /\ lastOp.trace[1].active = 0

\* ------------------------------------------------------------------------
\* C29: trigger evaluation is idempotent.  In a state an event left the
\* batcher in, one more evaluation of the trigger returns that state and
\* records nothing: no timer is set, delayFunction and batchingFunction
\* are not called, no batch is dispatched
\* ------------------------------------------------------------------------
C29_TriggerIdempotent ==
    /\ Trigger(Cur) = {Cur}
    /\ \A t \in Trigger(Cur) :
          /\ t.trace = <<>>
          /\ t.timers = timers /\ t.callCount = callCount
          /\ t.delayPending = delayPending /\ t.batches = batches
          /\ t.inputQueue = inputQueue

\* the trigger evaluation of a getResult call set the timer while a batch
\* was in flight, and requests that meet the threshold are queued
C29_Witness ==
    /\ lastOp.op = "getResult"
    /\ lastOp.trace # <<>>
    /\ lastOp.trace[1].ev = "timerSet"
    /\ timers = 1
    /\ batches # {}
    /\ ~BelowThreshold(Cur)
    /\ Trigger(Cur) = {Cur}

\* ------------------------------------------------------------------------
\* C30: at most one batch is committed: one queuing-delay timer is pending
\* or one run waits on delayFunction, never both and never two of either;
\* a pending timer implies the committed flag; when an immediate trigger
\* condition arises while a timer is pending, the timer is cancelled and
\* never fires a batch run
\* ------------------------------------------------------------------------
C30_OneCommitment ==
    /\ timers \in {0, 1}
    /\ timers = (IF waitTimeout THEN 1 ELSE 0)
    /\ ~(waitTimeout /\ delayPending)
    /\ waitTimeout => waiting
    /\ delayPending => waiting
    /\ waiting => (waitTimeout \/ delayPending)

\* the events of the step that commit or start a batch
CommitsOfStep ==
    {i \in 1..Len(lastOp'.trace) :
        lastOp'.trace[i].ev \in {"timerSet", "timerCleared", "runNow",
                                 "delayCall", "call"}}

\* while a run waits on delayFunction nothing else is committed or started
C30_NoSecondRun ==
    (delayPending /\ lastOp'.op \notin {"delayResolved", "delayRejected"}) =>
        /\ CommitsOfStep = {}
        /\ delayPending' /\ timers' = 0

\* while a timer is pending no second one is set: a step sets a timer only
\* after the pending one fired or was cancelled
C30_NoSecondTimer ==
    waitTimeout =>
        \A i \in CommitsOfStep :
            lastOp'.trace[i].ev = "timerSet" =>
                \/ lastOp'.op = "timer"
                \/ \E j \in 1..(i - 1) : lastOp'.trace[j].ev = "timerCleared"

\* a timer is cancelled when it is pending and the run starts at once; it
\* is cancelled once, and the timer that fires is the pending one
C30_Cancelled ==
    LET tr == lastOp'.trace
        cleared == {i \in 1..Len(tr) : tr[i].ev = "timerCleared"}
        setAfter == {i \in 1..Len(tr) :
                        tr[i].ev = "timerSet" /\ \E j \in cleared : j < i}
    IN  /\ cleared # {} =>
              /\ waitTimeout /\ timers = 1
              /\ lastOp'.op # "timer"
              /\ Cardinality(cleared) = 1
              /\ timers' = Cardinality(setAfter)
        /\ \A i \in cleared : i < Len(tr) /\ tr[i + 1].ev = "runNow"
        /\ \A i \in 1..Len(tr) :
              (tr[i].ev = "runNow" /\ waitTimeout /\ lastOp'.op # "timer"
               /\ \A j \in 1..(i - 1) : tr[j].ev = "requeue") =>
                  (i > 1 /\ tr[i - 1].ev = "timerCleared")
        /\ lastOp'.op = "timer" => (waitTimeout /\ timers = 1)

\* no timer stays pending in a state where the immediate condition holds
\* for requests that meet the threshold
C30_NoTimerWhenImmediate ==
    waitTimeout => (BelowThreshold(Cur) \/ ~RunNow(Cur))

C30_SingleCommitment ==
    /\ [](C30_OneCommitment /\ C30_NoTimerWhenImmediate)
    /\ [][C30_NoSecondRun /\ C30_NoSecondTimer /\ C30_Cancelled]_vars

\* a request that fills the batch while the timer is pending: the timer
\* is cancelled, the batch is dispatched and no timer is left
C30_Witness ==
    /\ lastOp.op = "getResult"
    /\ Len(lastOp.trace) >= 3
    /\ lastOp.trace[1].ev = "timerCleared"
    /\ lastOp.trace[2].ev = "runNow"
    /\ CallsOfStep # {}
    /\ timers = 0
    /\ ~waitTimeout

\* ------------------------------------------------------------------------
\* C31: the delayed path.  A trigger evaluation that finds the threshold
\* met, the queue below maxBatchSize and the immediate-flush count zero
\* sets one queuing-delay timer when no batch is committed, and calls
\* neither delayFunction nor batchingFunction before the timer fires; a
\* pending timer is left as it is: later arrivals neither restart it nor
\* add one, and they join the batch that runs when it fires
\* ------------------------------------------------------------------------
\* the getResult call that follows meets the conditions of the delayed path
C31_DelayedArrival ==
    /\ lastOp'.op = "getResult"
    /\ Len(inputQueue) + 1 >= ThresholdAt(activePromiseCount)
    /\ Len(inputQueue) + 1 < maxBatchSize
    /\ immediateCount = 0

C31_TimerSetOnce ==
    (C31_DelayedArrival /\ ~waiting) =>
        /\ Len(lastOp'.trace) = 1
        /\ lastOp'.trace[1].ev = "timerSet"
        /\ timers' = 1 /\ waitTimeout' /\ waiting'
        /\ callCount' = callCount /\ ~delayPending' /\ batches' = batches

C31_TimerLeftAlone ==
    (C31_DelayedArrival /\ waitTimeout) =>
        /\ lastOp'.trace = <<>>
        /\ timers' = 1 /\ waitTimeout' /\ waiting'
        /\ callCount' = callCount /\ ~delayPending' /\ batches' = batches
        /\ Len(outputQueue') = Len(outputQueue) + 1

\* every timer is set under the conditions of the delayed path, the steps
\* of batch completions included, and its step invokes nothing after it:
\* what can follow is the throw of a batchingFunction called before
C31_SetOnlyWhenDelayed ==
    \A i \in 1..Len(lastOp'.trace) :
        LET e == lastOp'.trace[i]
        IN  e.ev = "timerSet" =>
              /\ \A j \in (i + 1)..Len(lastOp'.trace) :
                    lastOp'.trace[j].ev = "threw"
              /\ e.queued >= ThresholdAt(e.active)
              /\ e.queued < maxBatchSize
              /\ e.immediate = 0
              /\ timers' = 1

\* after the completion of a batch that leaves the conditions of the
\* delayed path and no committed batch, the timer is set and nothing runs
C31_AfterCompletion ==
    (/\ lastOp'.op = "batch"
     /\ ~waiting
     /\ inputQueue' # <<>>
     /\ Len(inputQueue') >= ThresholdAt(activePromiseCount')
     /\ Len(inputQueue') < maxBatchSize
     /\ immediateCount' = 0
     /\ CallsOfStep' = {}) =>
        /\ timers' = 1
        /\ lastOp'.trace # <<>>
        /\ lastOp'.trace[Len(lastOp'.trace)].ev = "timerSet"
        /\ callCount' = callCount

\* while the timer is pending and is not cancelled, nothing is invoked
C31_NothingBeforeTheTimer ==
    (/\ waitTimeout
     /\ lastOp'.op # "timer"
     /\ \A i \in 1..Len(lastOp'.trace) : lastOp'.trace[i].ev # "timerCleared") =>
        /\ callCount' = callCount
        /\ \A i \in 1..Len(lastOp'.trace) : lastOp'.trace[i].ev = "requeue"
        /\ timers' = 1 /\ waitTimeout'

\* an arrival on the delayed path while the timer is pending leaves the
\* queue below maxBatchSize; when the timer fires the queue, later arrivals
\* included, is the batch of the run it starts, up to maxBatchSize (arrivals
\* that found the threshold unmet after a batch ended can fill the queue
\* to maxBatchSize and beyond without starting a run)
C31_ArrivalsJoin ==
    /\ (C31_DelayedArrival /\ waitTimeout) =>
           Len(outputQueue') < maxBatchSize
    /\ lastOp'.op = "timer" =>
           /\ outputQueue # <<>>
           /\ lastOp'.trace # <<>>
           /\ lastOp'.trace[1].ev \in {"call", "delayCall"}
           /\ lastOp'.trace[1].ev = "call" =>
                 lastOp'.trace[1].promises
                     = SubSeq(outputQueue, 1,
                              IF Len(outputQueue) < maxBatchSize
                              THEN Len(outputQueue) ELSE maxBatchSize)

C31_DelayedPath ==
    [][C31_TimerSetOnce /\ C31_TimerLeftAlone /\ C31_SetOnlyWhenDelayed
       /\ C31_AfterCompletion /\ C31_NothingBeforeTheTimer
       /\ C31_ArrivalsJoin]_vars

\* the timer fired with two requests queued, the second of which arrived
\* while it was pending, and both were dispatched in one batch
C31_Witness ==
    /\ lastOp.op = "timer"
    /\ queuingThresholds[1] = 1
    /\ lastOp.trace # <<>>
    /\ lastOp.trace[1].ev = "call"
    /\ Len(lastOp.trace[1].promises) = 2
    /\ callCount = 1

\* ------------------------------------------------------------------------
\* The immediate-flush counter
\* ------------------------------------------------------------------------
\* send() sets the counter to the queue length; the extraction of a batch
\* lowers it by the batch size, floored at zero
C32_CounterSteps ==
    /\ (lastOp'.op = "send" /\ lastOp'.trace = <<>>) =>
          immediateCount' = Len(inputQueue)
    /\ \A i \in 1..Len(lastOp'.trace) :
          LET e == lastOp'.trace[i]
          IN  (e.ev = "call" /\ i < Len(lastOp'.trace)) =>
                  lastOp'.trace[i + 1].immediate
                      = Max(0, e.immediate - Len(e.promises))

\* C32 as stated: in every reachable state the immediate-flush counter is
\* between 0 and the length of the pending queue; it is set to the queue
\* length by send(), lowered by the batch size, floored at zero, when a
\* batch is extracted, and never counts requests that have left the queue
C32_CounterWithinQueue ==
    /\ [](immediateCount >= 0 /\ immediateCount <= Len(inputQueue))
    /\ [][C32_CounterSteps]_vars

\* the same on a batcher without delayFunction
C32_CounterWithinQueueWithoutDelayFunction ==
    /\ [](~hasDelayFunction =>
            (immediateCount >= 0 /\ immediateCount <= Len(inputQueue)))
    /\ [][C32_CounterSteps]_vars

\* the counter exceeds the queue only after a failure of the delay function
C32_StaleOnlyAfterAbort ==
    immediateCount > Len(inputQueue) =>
        \E id \in DOMAIN deferred : deferred[id].val = DelayError

\* ------------------------------------------------------------------------
\* Retries and send
\* ------------------------------------------------------------------------
\* the step is the completion of a batch that requeues requests
C33_RequeueStep ==
    /\ lastOp'.op = "batch"
    /\ lastOp'.trace # <<>>
    /\ lastOp'.trace[1].ev = "requeue"

\* the counter after the requeue: the old one plus the number of retried
\* requests when it was not zero, zero when it was
C33_Bookkeeping ==
    C33_RequeueStep =>
        LET e == lastOp'.trace[1]
        IN  /\ Len(e.promises) > 0
            /\ e.immediate = IF immediateCount # 0
                             THEN immediateCount + Len(e.promises) ELSE 0
            /\ e.queued = Len(inputQueue) + Len(e.promises)

\* the retried requests leave without the queuing-delay timer: the first of
\* them is dispatched by the completion step, or belongs to the run that
\* waits on delayFunction
C33_WithoutTimer ==
    LET e == lastOp'.trace[1]
    IN  \/ \E i \in 2..Len(lastOp'.trace) :
              /\ lastOp'.trace[i].ev = "call"
              /\ e.promises[1] \in Range(lastOp'.trace[i].promises)
        \/ delayPending' /\ e.promises[1] \in Range(outputQueue')

\* the retried requests wait for the queuing-delay timer
C33_ThroughTimer ==
    LET e == lastOp'.trace[1]
    IN  /\ timers' = 1
        /\ e.promises[1] \in Range(outputQueue')
        /\ callCount' = callCount

\* C33 as stated: the counter becomes old + r when it was non-zero and
\* stays 0 when it was zero, so the retried requests are dispatched again
\* without the queuing-delay timer exactly when a send() marking is
\* outstanding at the requeue
C33_ImmediateExactlyWhenMarked ==
    [][C33_Bookkeeping
       /\ (C33_RequeueStep => (C33_WithoutTimer <=> immediateCount # 0))]_vars

\* C33 amended: the counter is as stated; the retried requests that meet
\* the threshold are dispatched again without the timer when a marking is
\* outstanding, and also when the queue they return to reaches
\* maxBatchSize or a run is already waiting on delayFunction; otherwise
\* they wait for the timer
C33_RetryAndSend ==
    [][/\ C33_Bookkeeping
       /\ (/\ C33_RequeueStep
           /\ lastOp'.trace[1].queued >= ThresholdAt(activePromiseCount - 1)) =>
              /\ C33_WithoutTimer <=>
                    \/ immediateCount # 0
                    \/ lastOp'.trace[1].queued >= maxBatchSize
                    \/ delayPending
              /\ ~C33_WithoutTimer <=> C33_ThroughTimer]_vars

\* one request retried while a send() marking was outstanding: the counter
\* went from 1 to 2 and the completion step dispatched it again
C33_Witness ==
    /\ lastOp.op = "batch"
    /\ lastOp.trace # <<>>
    /\ lastOp.trace[1].ev = "requeue"
    /\ lastOp.trace[1].immediate = 2
    /\ Len(lastOp.trace[1].promises) = 1
    /\ \E i \in CallsOfStep :
          lastOp.trace[1].promises[1] \in Range(lastOp.trace[i].promises)

\* ------------------------------------------------------------------------
\* C34: batchingFunction is never invoked with an empty input sequence:
\* whatever the interleaving of timers, delay functions, aborts, retries
\* and send calls, every run that reaches batchingFunction extracts at
\* least one request
\* ------------------------------------------------------------------------
C34_CallsAreNotEmpty ==
    \A i \in 1..Len(lastOp'.trace) :
        LET e == lastOp'.trace[i]
        IN  e.ev = "call" =>
              /\ Len(e.inputs) >= 1
              /\ Len(e.promises) = Len(e.inputs)
              /\ e.queued >= 1

C34_NeverEmptyBatch ==
    /\ [][C34_CallsAreNotEmpty]_vars
    /\ [](\A b \in batches : Len(b.inputs) >= 1 /\ Len(b.promises) >= 1)

\* a request submitted after a send() and a delay-function failure had
\* emptied the queue, dispatched alone by the run the stale counter starts
C34_Witness ==
    /\ lastOp.op = "getResult"
    /\ CallsOfStep # {}
    /\ \E id \in DOMAIN deferred : deferred[id].val = DelayError
    /\ lastOp.trace[1].ev = "runNow"
    /\ lastOp.trace[1].immediate > lastOp.trace[1].queued
    /\ \A i \in CallsOfStep : Len(lastOp.trace[i].inputs) = 1

\* ------------------------------------------------------------------------
\* C35: whenever a batch is committed, with a timer pending or a delay
\* function awaitable pending, the pending queue is not empty; in every
\* idle state the committed flag is clear and no timer is pending
\* ------------------------------------------------------------------------
C35_CommittedHasRequests ==
    /\ (waiting \/ waitTimeout \/ timers > 0 \/ delayPending) =>
          (inputQueue # <<>> /\ outputQueue # <<>>)
    /\ Idling(Cur) => (~waiting /\ ~waitTimeout /\ timers = 0 /\ ~delayPending)

\* a batcher that is idle again, with the flag clear, after a
\* delay-function failure and the completion of a batch
C35_Witness ==
    /\ lastOp.op = "batch"
    /\ Idling(Cur)
    /\ ~waiting
    /\ \E id \in DOMAIN deferred : deferred[id].val = DelayError
    /\ \E id \in DOMAIN deferred : deferred[id].st = "resolved"

\* ------------------------------------------------------------------------
\* C36: while a delay function awaitable is pending no other run starts:
\* getResult, send and batch completions neither call delayFunction again
\* nor invoke batchingFunction, even when maxBatchSize is reached; the
\* requests submitted meanwhile are only enqueued, and when the awaitable
\* resolves the batch is the first min(maxBatchSize, queue length) requests
\* of the queue as it is then
\* ------------------------------------------------------------------------
C36_NothingStartsDuringTheWait ==
    (delayPending /\ lastOp'.op \in {"getResult", "send", "batch"}) =>
        /\ \A i \in 1..Len(lastOp'.trace) : lastOp'.trace[i].ev = "requeue"
        /\ callCount' = callCount
        /\ delayPending' /\ waiting' /\ timers' = 0
        /\ lastOp'.op = "getResult" =>
              /\ outputQueue' = Append(outputQueue, Len(deferred'))
              /\ Len(deferred') = Len(deferred) + 1
              /\ Len(inputQueue') = Len(inputQueue) + 1
        /\ lastOp'.op = "send" =>
              (outputQueue' = outputQueue /\ inputQueue' = inputQueue)

C36_BatchOfTheMoment ==
    lastOp'.op = "delayResolved" =>
        LET n == Min(maxBatchSize, Len(outputQueue))
            e == lastOp'.trace[1]
        IN  /\ delayPending
            /\ n >= 1
            /\ e.ev = "call"
            /\ e.promises = SubSeq(outputQueue, 1, n)
            /\ e.inputs = SubSeq(inputQueue, 1, n)

C36_OneRunAtATime ==
    [][C36_NothingStartsDuringTheWait /\ C36_BatchOfTheMoment]_vars

\* with maxBatchSize 2, the awaitable resolved when three requests were
\* queued, the last of which arrived during the wait: the first two were
\* dispatched in the first invocation
C36_Witness ==
    /\ lastOp.op = "delayResolved"
    /\ maxBatchSize = 2
    /\ Len(deferred) = 3
    /\ lastOp.trace[1].ev = "call"
    /\ lastOp.trace[1].call = 1
    /\ lastOp.trace[1].promises = <<1, 2>>
    /\ lastOp.trace[1].queued = 3

\* ------------------------------------------------------------------------
\* C37: request conservation.  Every request submitted through getResult
\* is in exactly one of three places: once in the pending queue, in exactly
\* one in-flight batch, or settled; none is dropped without settlement and
\* none is present twice
\* ------------------------------------------------------------------------
\* how often id occurs in the sequence q
Occurrences(q, id) == Cardinality({i \in 1..Len(q) : q[i] = id})

C37_Places(id) ==
    Occurrences(outputQueue, id)
    + Cardinality({b \in batches : id \in Range(b.promises)})
    + (IF deferred[id].st # "pending" THEN 1 ELSE 0)

C37_Conservation ==
    /\ \A id \in DOMAIN deferred :
          /\ C37_Places(id) = 1
          /\ \A b \in batches : Occurrences(b.promises, id) <= 1
          /\ deferred[id].st # "pending" => deferred[id].settles >= 1
    /\ Len(inputQueue) = Len(outputQueue)
    /\ \A i \in 1..Len(outputQueue) :
          /\ outputQueue[i] \in DOMAIN deferred
          /\ inputQueue[i] = deferred[outputQueue[i]].input
    /\ \A b \in batches : Range(b.promises) \subseteq DOMAIN deferred

\* three requests, one in each place: the first settled, the second in
\* flight, the third queued
C37_Witness ==
    /\ Len(deferred) = 3
    /\ deferred[1].st # "pending"
    /\ 2 \in InFlight
    /\ outputQueue = <<3>>
    /\ deferred[2].retried

\* ------------------------------------------------------------------------
\* send() on an empty queue
\* ------------------------------------------------------------------------
C38_Unchanged ==
    /\ inputQueue' = inputQueue /\ outputQueue' = outputQueue
    /\ waiting' = waiting /\ waitTimeout' = waitTimeout /\ timers' = timers
    /\ delayPending' = delayPending
    /\ activePromiseCount' = activePromiseCount /\ batches' = batches
    /\ deferred' = deferred /\ callCount' = callCount
    /\ lastOp'.trace = <<>>

\* C38 as stated: send() on an empty pending queue changes nothing: the
\* queue, committed flag, timer, active-batch count and immediate-flush
\* counter are as before, no batch is dispatched, and a request submitted
\* afterwards goes through the queuing delay as if send() had not been
\* called
C38_SendOnEmptyChangesNothing ==
    [][(lastOp'.op = "send" /\ inputQueue = <<>>) =>
          (C38_Unchanged /\ immediateCount' = immediateCount)]_vars

\* the same on a batcher without delayFunction
C38_SendOnEmptyWithoutDelayFunction ==
    [][(~hasDelayFunction /\ lastOp'.op = "send" /\ inputQueue = <<>>) =>
          (C38_Unchanged /\ immediateCount' = immediateCount)]_vars

\* all but the counter is unchanged on every batcher, and the counter is
\* zero after the call
C38_SendOnEmptyResetsTheCounter ==
    [][(lastOp'.op = "send" /\ inputQueue = <<>>) =>
          (C38_Unchanged /\ immediateCount' = 0)]_vars

\* ------------------------------------------------------------------------
\* A delay-function failure and the batches in flight
\* ------------------------------------------------------------------------
\* the failure leaves the active-batch count, the batches in flight and
\* their promises as they are, and rejects the queued requests only
C39_FailureFrame ==
    lastOp'.op = "delayRejected" =>
        /\ activePromiseCount' = activePromiseCount
        /\ batches' = batches
        /\ callCount' = callCount
        /\ \A id \in DOMAIN deferred :
              IF id \in Range(outputQueue)
              THEN deferred'[id].st = "rejected" /\ deferred'[id].val = DelayError
              ELSE deferred'[id] = deferred[id]
        /\ \A id \in InFlight : deferred'[id].st = "pending"

\* a failure has happened
C39_AfterFailure == \E id \in DOMAIN deferred : deferred[id].val = DelayError

\* a batch that completes after the failure distributes its results as
\* ever; the requests it marks for retry go back to the head of the queue
\* and are not rejected with the delay error
C39_DistributesNormally ==
    (/\ C39_AfterFailure
     /\ lastOp'.op = "batch"
     /\ lastOp'.out.kind = "array") =>
        LET b == lastOp'.batch
            o == lastOp'.out.outputs
        IN  \A k \in 1..Len(b.promises) :
               LET p == deferred'[b.promises[k]]
               IN  /\ o[k] \in Values => (p.st = "resolved" /\ p.val = o[k])
                   /\ o[k] \in Errors => (p.st = "rejected" /\ p.val = o[k])
                   /\ o[k] = BATCHER_RETRY_TOKEN =>
                         /\ p.val # DelayError
                         /\ p.retried
                         /\ lastOp'.trace[1].ev = "requeue"
                         /\ b.promises[k] \in Range(lastOp'.trace[1].promises)
                         /\ lastOp'.trace[1].queue[1]
                                = lastOp'.trace[1].promises[1]

\* the batch was in flight when the delay function failed, and its
\* completion, the next step, requeues requests
C39_RequeueAfterFailure ==
    /\ lastOp.op = "delayRejected"
    /\ batches # {}
    /\ C33_RequeueStep

TypeOK ==
    /\ Len(inputQueue) <= MaxRequests
    /\ activePromiseCount \in Nat
    /\ immediateCount \in Nat
    /\ idleHandle \in 0..MaxIdleCalls
    /\ Len(idleCalls) <= MaxIdleCalls
    /\ \A i \in DOMAIN idleCalls :
          /\ idleCalls[i].handle \in 0..MaxIdleCalls
          /\ idleCalls[i].st \in {"pending", "resolved"}

====
